---- MODULE Spec2Model ----
(***************************************************************************)
(* Chromatic Rush: the ECS runtime and the per-frame pipeline it drives.   *)
(*                                                                         *)
(* Specifications over one set of variables:                               *)
(*   SpecEM     the EntityManager and the Entity fields it reads           *)
(*   SpecLoop   the game-loop callback chain and the tick's step order     *)
(*   SpecHit    Health, the collision pass and the invulnerability timer   *)
(*   SpecPickup, SpecPaint  collectibles and street art                    *)
(*   SpecGen, SpecWorld     the world generator                            *)
(*   SpecRun, SpecJump      whole runs and the player's jump               *)
(*   SpecAI, SpecAch        the AI controllers and the achievements        *)
(*   SpecClean, SpecParts   the cleanup and entities lacking a component   *)
(*   SpecSpray, SpecPose    the spray-power meter and the player's pose     *)
(*   SpecReach              the generator for a player further along        *)
(* Each specification leaves the variables of the others unchanged.        *)
(***************************************************************************)
EXTENDS Integers, Sequences, FiniteSets, TLC

(***************************************************************************)
(* Bounds of the model.                                                    *)
(***************************************************************************)
NumEnt == 2
MaxStaged == 2
MaxPending == 2
MaxGameTime == 3
NumItems == 3
NumPickups == 3
NumArts == 1
GenHorizon == 90
MaxExcess == 1
MaxAITimer == 42
MaxRoam == 176
NumScene == 5

\* the cap of deltaTime, 0.1 s, in tenths of a second
DtCap == 1

VARIABLES
    \* Entity fields (Entity constructor)
    tags, active, destroy,
    \* EntityManager fields
    entities, entitiesByTag, entitiesToAdd, entitiesToRemove,
    \* the last EntityManager/Entity operation and, for update(), what it was given
    last,
    \* ChromaticRush fields, the screen shown and the pause key of InputManager.keys
    gameState, paused, screen, pauseKey,
    \* game.gameTime, in tenths of a second
    gameTime,
    \* requestAnimationFrame callbacks registered for the next animation frame
    pending,
    \* the steps run by the gameLoop calls of the last handler, how many of
    \* these calls ran the pipeline, and whether the handler was a frame
    log, ticks, inFrame,
    \* the player's Health component
    health,
    \* the obstacles and collectibles of the world: Transform.x, Obstacle.hit,
    \* Collectible.collected, Entity.destroy
    items,
    \* the handler calls of the last collision pass, each with the state it
    \* found and the state it left
    hitCalls,
    \* the last operation on the player's health and what takeDamage returned
    hitOp, ret,
    \* game.score, game.gameSpeed (in thousandths), game.distance (in hundredths
    \* of a unit) and PlayerController.sprayPower (in tenths of a unit)
    score, gameSpeed, distance, sprayPower,
    \* the collectibles of the pickup world: Collectible.collected and
    \* Entity.destroy of each, and the ones the entity store holds
    pickups, pickStore,
    \* the last operation on the pickup world, with the state it found
    pickLast,
    \* StreetArt.paintProgress (tenths of a unit) and StreetArt.painted of each
    \* art, stats.wallsPainted, and the last tick of the paint world with the
    \* state it found
    arts, wallsPainted, paintLast,
    \* WorldGenerator.lastSpawnX, the pattern types executed since startGame,
    \* the number of spawnPattern calls since startGame, and the pattern types
    \* executed by the last handler
    lastSpawnX, emitted, drawn, lastDrawn,
    \* WorldGenerator.buildingSpawnX
    buildingSpawnX,
    \* the spawnBuilding calls of the last handler that ran the generator
    buildingsSpawned,
    \* the last handler of a whole game run with what it found, and the
    \* simulation state at the time of the last gameOver() call
    runLast, overAt,
    \* the player's Transform.y and Velocity.vy, its Physics flags,
    \* PlayerController.isJumping, canvas.height, the jumps started since the
    \* last landing, and what the last tick's jump test found
    playerY, playerVy, physics, isJumping, canvasHeight, jumps, jumpLast,
    \* the invulnerability time last granted to the player (by a hit or by a
    \* power-up) and the simulated time the player system has seen since
    shield,
    \* an AI entity: AIController.type and .config, the controller's state,
    \* timer, target and direction, Transform.x and Velocity.vx (units and
    \* units per second), the player's Transform.x as the AI pass finds it, and
    \* the last step of the AI world with what its AI pass found
    aiType, aiConfig, ai, aiX, aiVx, playerAt, aiLast,
    \* AchievementSystem: the unlocked property of each object that
    \* this.achievements[id] finds, and unlockedAchievements; the notifications
    \* shown and the saveProgress calls made for each id; the two localStorage
    \* items; and the last call with what it was given and what it returned
    achievements, unlockedAchievements, notified, saved, storedAchievements,
    storedHighScore, achLast,
    \* the entities the cleanup of WorldGenerator.update looks at: of each its
    \* Transform.x, Entity.destroy and whether the manager holds it staged, in
    \* its store, or no longer; and the last tick with the world its cleanup
    \* found
    scene, sceneLast,
    \* the components each entity of a frame carries, and the frame loop as far
    \* as the components matter to it: whether it is still scheduled, what the
    \* last frame was given, which system threw in it, and the flags the
    \* handlers test
    parts, partsLast,
    \* which writers of sprayPower acted in the last frame
    sprayLast,
    \* the player's isDucking and isSpraying, the height and offsetY of its
    \* Collider, its Sprite.frame and its Animation; and the keys of the last
    \* frame, with whether the player has let go of the keys for good
    pose, poseLast,
    \* game.stats.coinsCollected
    coinsCollected

emVars == <<tags, active, destroy, entities, entitiesByTag, entitiesToAdd,
            entitiesToRemove, last>>

loopVars == <<gameState, paused, screen, pauseKey, gameTime, pending, log, ticks,
              inFrame>>

hitVars == <<health, items, hitCalls, hitOp, ret>>

simVars == <<score, gameSpeed, distance, sprayPower>>

pickVars == <<pickups, pickStore, pickLast>>

\* the variables beyond the entity manager's, the loop's and the hit's
paintVars == <<arts, wallsPainted, paintLast>>

genVars == <<lastSpawnX, emitted, drawn, lastDrawn, buildingSpawnX, buildingsSpawned>>

runVars == <<runLast, overAt>>

jumpVars == <<playerY, playerVy, physics, isJumping, canvasHeight, jumps, jumpLast>>

aiVars == <<aiType, aiConfig, ai, aiX, aiVx, playerAt, aiLast>>

achVars == <<achievements, unlockedAchievements, notified, saved, storedAchievements,
             storedHighScore, achLast>>

sceneVars == <<scene, sceneLast>>

partVars == <<parts, partsLast>>

poseVars == <<pose, poseLast>>

tailVars == <<sprayLast, poseVars, coinsCollected>>

lateVars == <<aiVars, achVars, sceneVars, partVars, tailVars>>

moreVars == <<simVars, pickVars, paintVars, genVars, runVars, jumpVars, shield, lateVars>>

vars == <<emVars, loopVars, hitVars, moreVars>>

\* what the EntityManager operations leave alone, and what the handlers of
\* the game loop leave alone
notEM == <<loopVars, hitVars, moreVars>>

notLoop == <<emVars, hitVars, moreVars>>

----------------------------------------------------------------------------
(***************************************************************************)
(* Sequence helpers.                                                       *)
(***************************************************************************)
Range(s) == {s[i] : i \in DOMAIN s}

Occ(s, x) == Cardinality({i \in DOMAIN s : s[i] = x})

\* Array.prototype.indexOf: the first index holding x, 0 when there is none
IndexOf(s, x) ==
    IF x \in Range(s) THEN CHOOSE i \in DOMAIN s : s[i] = x /\ \A j \in 1..(i-1) : s[j] # x
    ELSE 0

\* Array.prototype.splice(index, 1)
Splice(s, i) == [j \in 1..(Len(s) - 1) |-> IF j < i THEN s[j] ELSE s[j + 1]]

\* s is obtained from t by deleting elements (order kept)
RECURSIVE IsSubSeq(_, _)
IsSubSeq(s, t) ==
    IF s = <<>> THEN TRUE
    ELSE IF t = <<>> THEN FALSE
    ELSE IF Head(s) = Head(t) THEN IsSubSeq(Tail(s), Tail(t))
    ELSE IsSubSeq(s, Tail(t))

----------------------------------------------------------------------------
(***************************************************************************)
(* Entities.  An entity object is identified with its id (ids are unique). *)
(* Components are attached by the factories before the entity is handed to *)
(* the manager and never change afterwards.                                *)
(***************************************************************************)
Ent == 1..NumEnt

Kinds == {"Transform", "Collider", "Particle"}

Tags == {"obstacle"}

\* component sets of the factories: obstacle-like, particle-like, scenery-like
Archetypes == << {"Transform", "Collider"}, {"Transform", "Particle"}, {"Transform"} >>

components(e) == Archetypes[((e - 1) % Len(Archetypes)) + 1]

hasComponent(e, k) == k \in components(e)

hasTag(e, t) == t \in tags[e]

\* what is remembered of the last operation: whether it was update() or
\* clear(), and for update() the entities its staging lists held
Other == [op |-> "other", toAdd |-> {}, toRemove |-> {}]

----------------------------------------------------------------------------
(***************************************************************************)
(* EntityManager queries.                                                  *)
(***************************************************************************)
\* getEntitiesWith, with the destroy test left out
RECURSIVE getEntitiesWithNoDestroyTest(_, _)
getEntitiesWithNoDestroyTest(store, K) ==
    IF store = <<>> THEN <<>>
    ELSE LET e == Head(store)
             rest == getEntitiesWithNoDestroyTest(Tail(store), K)
         IN  IF ~active[e] THEN rest
             ELSE IF \A k \in K : hasComponent(e, k) THEN <<e>> \o rest
             ELSE rest

\* getEntitiesWith, iterating the store in insertion order
RECURSIVE getEntitiesWithFrom(_, _)
getEntitiesWithFrom(store, K) ==
    IF store = <<>> THEN <<>>
    ELSE LET e == Head(store)
             rest == getEntitiesWithFrom(Tail(store), K)
         IN  IF ~active[e] \/ destroy[e] THEN rest
             ELSE IF \A k \in K : hasComponent(e, k) THEN <<e>> \o rest
             ELSE rest

getEntitiesWith(K) == getEntitiesWithFrom(entities, K)

\* getEntity(id): the entity, or 0 for undefined
getEntity(e) == IF e \in Range(entities) THEN e ELSE 0

getEntitiesByTag(t) == IF t \in DOMAIN entitiesByTag THEN entitiesByTag[t] ELSE <<>>

----------------------------------------------------------------------------
(***************************************************************************)
(* EntityManager.update(): the flush.                                      *)
(***************************************************************************)
\* Map.set: a new key goes last, an existing key keeps its place
MapSet(store, e) == IF e \in Range(store) THEN store ELSE Append(store, e)

\* Map.delete
MapDelete(store, e) == SelectSeq(store, LAMBDA x : x # e)

\* the tag index after pushing e to the bucket of each of its tags
IndexTags(idx, e) ==
    [t \in (DOMAIN idx) \cup tags[e] |->
        IF t \in tags[e]
        THEN Append(IF t \in DOMAIN idx THEN idx[t] ELSE <<>>, e)
        ELSE idx[t]]

\* the tag index after splicing the first occurrence of e out of the bucket
\* of each of its tags
UnindexTags(idx, e) ==
    [t \in DOMAIN idx |->
        IF t \in tags[e] /\ IndexOf(idx[t], e) > 0
        THEN Splice(idx[t], IndexOf(idx[t], e))
        ELSE idx[t]]

\* first loop: move the staged additions into the store and index their tags
RECURSIVE AddAll(_, _, _)
AddAll(store, idx, toAdd) ==
    IF toAdd = <<>> THEN [store |-> store, idx |-> idx]
    ELSE AddAll(MapSet(store, Head(toAdd)), IndexTags(idx, Head(toAdd)), Tail(toAdd))

\* second loop without the scan
MarkedNone(store) == <<>>

\* second loop: the entities of the store marked destroy, in store order
Marked(store) == SelectSeq(store, LAMBDA e : destroy[e])

\* third loop: delete the staged removals from the store and the tag index
RECURSIVE RemoveAll(_, _, _)
RemoveAll(store, idx, toRemove) ==
    IF toRemove = <<>> THEN [store |-> store, idx |-> idx]
    ELSE RemoveAll(MapDelete(store, Head(toRemove)),
                   UnindexTags(idx, Head(toRemove)), Tail(toRemove))

Flush(store, idx, toAdd, toRemove) ==
    LET a == AddAll(store, idx, toAdd)
        rm == toRemove \o Marked(a.store)
    IN  RemoveAll(a.store, a.idx, rm)

----------------------------------------------------------------------------
(***************************************************************************)
(* Health, and the world the collision pass sees.  Times are in tenths of  *)
(* a second.                                                               *)
(***************************************************************************)
Max(a, b) == IF a >= b THEN a ELSE b

Min(a, b) == IF a <= b THEN a ELSE b

\* new Health(3), as createPlayer builds it
PlayerMaxHealth == 3

NewHealth(maxHealth) ==
    [current |-> maxHealth, max |-> maxHealth, invulnerable |-> FALSE,
     invulnerabilityTime |-> 0]

\* takeDamage that ignores the invulnerable flag
takeDamageAlways(h, amount) ==
    [health |-> [h EXCEPT !.current = Max(0, @ - amount)], ret |-> TRUE]

\* takeDamage: the component after the call and the value returned
takeDamage(h, amount) ==
    IF h.invulnerable THEN [health |-> h, ret |-> FALSE]
    ELSE [health |-> [h EXCEPT !.current = Max(0, @ - amount)], ret |-> TRUE]

heal(h, amount) == [h EXCEPT !.current = Min(h.max, @ + amount)]

\* invulnerability granted by an obstacle hit (1.5 s) and by a power-up (3.0 s)
HitInvulnerability == 15

PowerUpInvulnerability == 30

Items == 1..NumItems

\* what the world generator's factories build: obstacles carry the tag
\* 'obstacle' and an Obstacle(type, damage), collectibles the tag 'collectible'
\* and a Collectible(type, value)
ItemTypes ==
    << [tag |-> "obstacle", type |-> "barrier", damage |-> 1],
       [tag |-> "collectible", type |-> "power_up", damage |-> 0],
       [tag |-> "obstacle", type |-> "cone", damage |-> 2],
       [tag |-> "collectible", type |-> "coin", damage |-> 0] >>

ItemType(i) == ItemTypes[((i - 1) % Len(ItemTypes)) + 1]

\* the player's Transform and Collider as createPlayer builds them, and the
\* colliders of spawnObstacle and spawnCollectible, placed at the player's height
PlayerRect == [x |-> 100 + 2, y |-> 350 + 0, width |-> 28, height |-> 32]

ItemRect(i, x) ==
    IF ItemType(i).tag = "obstacle"
    THEN [x |-> x + 2, y |-> 350 + 2, width |-> 60, height |-> 60]
    ELSE [x |-> x + 2, y |-> 350 + 2, width |-> 28, height |-> 28]

\* the x positions an item is moved between: one overlapping the player, one
\* where the boxes only touch
XPositions == {100, 128}

rectIntersects(rectA, rectB) ==
    /\ rectA.x < rectB.x + rectB.width
    /\ rectA.x + rectA.width > rectB.x
    /\ rectA.y < rectB.y + rectB.height
    /\ rectA.y + rectA.height > rectB.y

checkCollision(i, x) == rectIntersects(PlayerRect, ItemRect(i, x))

NewItem == [x |-> 128, hit |-> FALSE, collected |-> FALSE, destroy |-> FALSE]

\* the state a collision pass works on
World ==
    [health |-> health, items |-> items, over |-> FALSE, calls |-> <<>>,
     score |-> score, gameSpeed |-> gameSpeed, sprayPower |-> sprayPower]

\* addScore(points): the new score; gameSpeed is in thousandths
addScore(sc, speed, points) == sc + ((points * speed) \div 1000)

\* PlayerController.maxSprayPower (100) and the refill of a spray can (25)
MaxSprayPower == 1000

SprayRefill == 250

getCollectibleValue(type) ==
    CASE type = "coin" -> 10
      [] type = "spray_can" -> 25
      [] type = "power_up" -> 50
      [] OTHER -> 10

\* new Collectible(type, getCollectibleValue(type)) on a new entity
NewCollectible(type) ==
    [type |-> type, value |-> getCollectibleValue(type), collected |-> FALSE,
     destroy |-> FALSE]

\* what handlePlayerCollectibleCollision reads and writes besides the
\* collectible: the score, the player's controller and health, and the number
\* of createCollectEffect calls it makes
PlayerSide(sc, speed, power, h) ==
    [score |-> sc, gameSpeed |-> speed, sprayPower |-> power, health |-> h,
     effects |-> 0]

\* handlePlayerObstacleCollision that leaves the hit latch alone
handlePlayerObstacleCollisionNoLatch(w, i) ==
    IF ~w.health.invulnerable /\ ~w.items[i].hit
    THEN LET damaged == takeDamage(w.health, ItemType(i).damage)
         IN  IF damaged.ret
             THEN [w EXCEPT !.health = [damaged.health EXCEPT
                                           !.invulnerable = TRUE,
                                           !.invulnerabilityTime = HitInvulnerability],
                            !.over = @ \/ damaged.health.current <= 0]
             ELSE w
    ELSE w

\* handlePlayerObstacleCollision without the game-over check
handlePlayerObstacleCollisionNoGameOver(w, i) ==
    IF ~w.health.invulnerable /\ ~w.items[i].hit
    THEN LET damaged == takeDamage(w.health, ItemType(i).damage)
         IN  IF damaged.ret
             THEN [w EXCEPT !.items[i].hit = TRUE,
                            !.health = [damaged.health EXCEPT
                                           !.invulnerable = TRUE,
                                           !.invulnerabilityTime = HitInvulnerability]]
             ELSE w
    ELSE w

handlePlayerObstacleCollision(w, i) ==
    IF ~w.health.invulnerable /\ ~w.items[i].hit
    THEN LET damaged == takeDamage(w.health, ItemType(i).damage)
         IN  IF damaged.ret
             THEN [w EXCEPT !.items[i].hit = TRUE,
                            !.health = [damaged.health EXCEPT
                                           !.invulnerable = TRUE,
                                           !.invulnerabilityTime = HitInvulnerability],
                            !.over = @ \/ damaged.health.current <= 0]
             ELSE w
    ELSE w

\* handlePlayerCollectibleCollision without the collected latch
handlePlayerCollectibleCollisionNoLatch(p, c) ==
    LET scored == [p EXCEPT !.score = addScore(@, p.gameSpeed, c.value)]
        typed == CASE c.type = "spray_can" ->
                        [scored EXCEPT !.sprayPower = Min(MaxSprayPower, @ + SprayRefill)]
                   [] c.type = "power_up" ->
                        [scored EXCEPT !.health.invulnerable = TRUE,
                                       !.health.invulnerabilityTime = PowerUpInvulnerability]
                   [] OTHER -> scored
    IN  [player |-> [typed EXCEPT !.effects = @ + 1],
         collectible |-> [c EXCEPT !.collected = TRUE, !.destroy = TRUE]]

\* handlePlayerCollectibleCollision with a refill that is not capped
handlePlayerCollectibleCollisionNoCap(p, c) ==
    IF ~c.collected
    THEN LET scored == [p EXCEPT !.score = addScore(@, p.gameSpeed, c.value)]
             typed == CASE c.type = "spray_can" ->
                            [scored EXCEPT !.sprayPower = @ + SprayRefill]
                       [] c.type = "power_up" ->
                            [scored EXCEPT !.health.invulnerable = TRUE,
                                           !.health.invulnerabilityTime = PowerUpInvulnerability]
                       [] OTHER -> scored
         IN  [player |-> [typed EXCEPT !.effects = @ + 1],
              collectible |-> [c EXCEPT !.collected = TRUE, !.destroy = TRUE]]
    ELSE [player |-> p, collectible |-> c]

\* handlePlayerCollectibleCollision(player, collectible): the latch, addScore,
\* the effect of the type, the collect effect, and the destroy mark
handlePlayerCollectibleCollision(p, c) ==
    IF ~c.collected
    THEN LET scored == [p EXCEPT !.score = addScore(@, p.gameSpeed, c.value)]
             typed == CASE c.type = "spray_can" ->
                            [scored EXCEPT !.sprayPower = Min(MaxSprayPower, @ + SprayRefill)]
                       [] c.type = "power_up" ->
                            [scored EXCEPT !.health.invulnerable = TRUE,
                                           !.health.invulnerabilityTime = PowerUpInvulnerability]
                       [] OTHER -> scored
         IN  [player |-> [typed EXCEPT !.effects = @ + 1],
              collectible |-> [c EXCEPT !.collected = TRUE, !.destroy = TRUE]]
    ELSE [player |-> p, collectible |-> c]

\* the handler applied to item i of the world of a collision pass
collectItem(w, i) ==
    LET c == [NewCollectible(ItemType(i).type) EXCEPT
                 !.collected = w.items[i].collected, !.destroy = w.items[i].destroy]
        r == handlePlayerCollectibleCollision(
                 PlayerSide(w.score, w.gameSpeed, w.sprayPower, w.health), c)
    IN  [w EXCEPT !.items[i].collected = r.collectible.collected,
                  !.items[i].destroy = r.collectible.destroy,
                  !.health = r.player.health,
                  !.score = r.player.score,
                  !.sprayPower = r.player.sprayPower]

\* handleCollision for the pair (player, item i): the tag-pair dispatch
handleCollision(w, i) ==
    LET after == IF ItemType(i).tag = "obstacle"
                 THEN handlePlayerObstacleCollision(w, i)
                 ELSE collectItem(w, i)
        call == [item |-> i,
                 pre |-> [health |-> w.health, hit |-> w.items[i].hit],
                 post |-> [health |-> after.health, hit |-> after.items[i].hit]]
    IN  [after EXCEPT !.calls = Append(@, call)]

\* CollisionSystem.update: the pairs (player, item) in store order, over the
\* entities getEntitiesWith returned (the player was added first; an item
\* marked destroy is not returned)
RECURSIVE collisionPass(_, _)
collisionPass(w, i) ==
    IF i > NumItems THEN w
    ELSE IF ~w.items[i].destroy /\ checkCollision(i, w.items[i].x)
         THEN collisionPass(handleCollision(w, i), i + 1)
         ELSE collisionPass(w, i + 1)

\* the invulnerability timer, cleared with a tenth of a second still to run
updateInvulnerabilityEarly(h, dt) ==
    IF h.invulnerable
    THEN LET t == h.invulnerabilityTime - dt
         IN  [h EXCEPT !.invulnerabilityTime = t, !.invulnerable = ~(t <= 1)]
    ELSE h

\* PlayerSystem.update, the invulnerability timer
updateInvulnerability(h, dt) ==
    IF h.invulnerable
    THEN LET t == h.invulnerabilityTime - dt
         IN  [h EXCEPT !.invulnerabilityTime = t, !.invulnerable = ~(t <= 0)]
    ELSE h

----------------------------------------------------------------------------
(***************************************************************************)
(* The pickup world: collectibles of the three types in the entity store.  *)
(***************************************************************************)
Pickups == 1..NumPickups

PickupTypes == << "coin", "spray_can", "power_up" >>

PickupType(i) == PickupTypes[((i - 1) % Len(PickupTypes)) + 1]

\* the fields of pickup i as a Collectible on its entity
PickupOf(i) ==
    [NewCollectible(PickupType(i)) EXCEPT
        !.collected = pickups[i].collected, !.destroy = pickups[i].destroy]

NoPick == [op |-> "none", id |-> 0,
           pre |-> [score |-> 0, sprayPower |-> 0, health |-> NewHealth(PlayerMaxHealth),
                    collected |-> FALSE],
           effects |-> 0]

\* game.gameSpeed after a tick that left game.gameTime at t tenths of a second
speedAt(t) == Min(2000, 1000 + t)

InitSim ==
    /\ score = 0
    /\ gameSpeed = 1000
    /\ distance = 0
    /\ sprayPower = MaxSprayPower

\* the collision pass over the collectibles the player overlaps, in store
\* order; getEntitiesWith leaves out the ones marked destroy
RECURSIVE pickupPass(_, _, _, _)
pickupPass(p, ps, touched, i) ==
    IF i > NumPickups THEN [player |-> p, pickups |-> ps]
    ELSE IF i \in touched /\ ~ps[i].destroy
         THEN LET r == handlePlayerCollectibleCollision(
                           p, [NewCollectible(PickupType(i)) EXCEPT
                                  !.collected = ps[i].collected,
                                  !.destroy = ps[i].destroy])
              IN  pickupPass(r.player,
                             [ps EXCEPT ![i] = [collected |-> r.collectible.collected,
                                                destroy |-> r.collectible.destroy]],
                             touched, i + 1)
         ELSE pickupPass(p, ps, touched, i + 1)

InitPickups ==
    /\ pickups = [i \in Pickups |-> [collected |-> FALSE, destroy |-> FALSE]]
    /\ pickStore = Pickups
    /\ pickLast = NoPick

----------------------------------------------------------------------------
(***************************************************************************)
(* Street art.  Paint progress and spray power are in tenths of a unit,    *)
(* so a tenth of a second of spraying adds 50 and drains 25.               *)
(***************************************************************************)
Arts == 1..NumArts

\* new StreetArt()
RequiredPaint == 1000

NewStreetArt == [paintProgress |-> 0, painted |-> FALSE]

\* sprayRate (50 units per second) and sprayRegenRate (20 units per second),
\* per tenth of a second in tenths of a unit
SprayRate == 50

SprayRegenRate == 20

PaintScore == 100

\* what handlePlayerStreetArtCollision reads and writes besides the art
Sprayer(flag, power, sc, speed, walls) ==
    [spray |-> flag, sprayPower |-> power, score |-> sc, gameSpeed |-> speed,
     wallsPainted |-> walls, effects |-> 0]

\* handlePlayerStreetArtCollision that does not test actions.spray
handlePlayerStreetArtCollisionNoSprayTest(p, art, dt) ==
    IF ~art.painted /\ p.sprayPower > 0
    THEN LET deltaSpray == SprayRate * dt
             progress == art.paintProgress + deltaSpray
             sprayed == [p EXCEPT !.sprayPower = Max(0, @ - (deltaSpray \div 2)),
                                  !.effects = @ + 1]
         IN  IF progress >= RequiredPaint /\ ~art.painted
             THEN [player |-> [sprayed EXCEPT
                                  !.score = addScore(@, p.gameSpeed, PaintScore),
                                  !.wallsPainted = @ + 1],
                   art |-> [paintProgress |-> progress, painted |-> TRUE]]
             ELSE [player |-> sprayed,
                   art |-> [art EXCEPT !.paintProgress = progress]]
    ELSE [player |-> p, art |-> art]

\* handlePlayerStreetArtCollision that does not test artComponent.painted
handlePlayerStreetArtCollisionNoPaintedTest(p, art, dt) ==
    IF p.spray /\ p.sprayPower > 0
    THEN LET deltaSpray == SprayRate * dt
             progress == art.paintProgress + deltaSpray
             sprayed == [p EXCEPT !.sprayPower = Max(0, @ - (deltaSpray \div 2)),
                                  !.effects = @ + 1]
         IN  IF progress >= RequiredPaint
             THEN [player |-> [sprayed EXCEPT
                                  !.score = addScore(@, p.gameSpeed, PaintScore),
                                  !.wallsPainted = @ + 1],
                   art |-> [paintProgress |-> progress, painted |-> TRUE]]
             ELSE [player |-> sprayed,
                   art |-> [art EXCEPT !.paintProgress = progress]]
    ELSE [player |-> p, art |-> art]

\* handlePlayerStreetArtCollision(player, streetart), with game.deltaTime = dt
handlePlayerStreetArtCollision(p, art, dt) ==
    IF p.spray /\ ~art.painted /\ p.sprayPower > 0
    THEN LET deltaSpray == SprayRate * dt
             progress == art.paintProgress + deltaSpray
             sprayed == [p EXCEPT !.sprayPower = Max(0, @ - (deltaSpray \div 2)),
                                  !.effects = @ + 1]
         IN  IF progress >= RequiredPaint /\ ~art.painted
             THEN [player |-> [sprayed EXCEPT
                                  !.score = addScore(@, p.gameSpeed, PaintScore),
                                  !.wallsPainted = @ + 1],
                   art |-> [paintProgress |-> progress, painted |-> TRUE]]
             ELSE [player |-> sprayed,
                   art |-> [art EXCEPT !.paintProgress = progress]]
    ELSE [player |-> p, art |-> art]

\* the collision pass over the arts the player overlaps, in store order
RECURSIVE paintPass(_, _, _, _, _)
paintPass(p, as, overlap, dt, a) ==
    IF a > NumArts THEN [player |-> p, arts |-> as]
    ELSE IF a \in overlap
         THEN LET r == handlePlayerStreetArtCollision(p, as[a], dt)
              IN  paintPass(r.player, [as EXCEPT ![a] = r.art], overlap, dt, a + 1)
         ELSE paintPass(p, as, overlap, dt, a + 1)

\* the regeneration without the cap at maxSprayPower
regenerateSprayNoCap(power, dt) ==
    IF power < MaxSprayPower
    THEN power + SprayRegenRate * dt
    ELSE power

\* PlayerSystem.update, the regeneration of spray power
regenerateSpray(power, dt) ==
    IF power < MaxSprayPower
    THEN Min(MaxSprayPower, power + SprayRegenRate * dt)
    ELSE power

NoPaint ==
    [op |-> "none", spray |-> FALSE, overlap |-> {}, dt |-> 0,
     pre |-> [arts |-> [a \in Arts |-> NewStreetArt], sprayPower |-> 0, score |-> 0,
              wallsPainted |-> 0],
     afterPass |-> 0, effects |-> 0]

InitPaint ==
    /\ arts = [a \in Arts |-> NewStreetArt]
    /\ wallsPainted = 0
    /\ paintLast = NoPaint

----------------------------------------------------------------------------
(***************************************************************************)
(* The world generator.  Distances travelled (game.distance and the        *)
(* patterns' minDistance) are in hundredths of a unit, positions in units. *)
(***************************************************************************)
patterns ==
    << [type |-> "single_barrier", weight |-> 30, minDistance |-> 0],
       [type |-> "double_cone", weight |-> 25, minDistance |-> 20000],
       [type |-> "pothole_series", weight |-> 20, minDistance |-> 40000],
       [type |-> "corporate_ambush", weight |-> 15, minDistance |-> 60000],
       [type |-> "drone_patrol", weight |-> 10, minDistance |-> 80000] >>

\* createPlayer: Transform(100, 350, 32, 32); nothing writes the player's
\* Velocity.vx, so PhysicsSystem leaves Transform.x where it is
PlayerX == 100

\* spawnThreshold = playerTransform.x + 800
SpawnAhead == 800

InitialSpawnX == 400

InitialPatterns == 10

\* spawnDistance + Math.random() * 100, at both ends of its range
SpawnGaps == {150, 249}

\* the patterns, not filtered by their gates
availablePatternsNoGate(dist) == patterns

\* this.patterns.filter(p => this.game.distance >= p.minDistance)
availablePatterns(dist) == SelectSeq(patterns, LAMBDA p : dist >= p.minDistance)

RECURSIVE totalWeight(_)
totalWeight(ps) == IF ps = <<>> THEN 0 ELSE Head(ps).weight + totalWeight(Tail(ps))

\* the selection loop: the first pattern at which the running value is <= 0
RECURSIVE selectPattern(_, _)
selectPattern(ps, random) ==
    IF Len(ps) = 1 \/ random - Head(ps).weight <= 0
    THEN Head(ps)
    ELSE selectPattern(Tail(ps), random - Head(ps).weight)

\* the pattern types Math.random() * totalWeight can select
drawable(dist) ==
    LET ps == availablePatterns(dist)
    IN  {selectPattern(ps, random).type : random \in 0..(totalWeight(ps) - 1)}

\* WorldGenerator.spawnDistance and WorldGenerator.buildingDistance
SpawnDistance == 150

BuildingDistance == 200

\* spawnPattern() advancing the cursor by less than spawnDistance
spawnPatternShort(g, dist) ==
    IF availablePatterns(dist) = <<>> THEN {g}
    ELSE {[lastSpawnX |-> g.lastSpawnX + gap - 50,
           emitted |-> g.emitted \cup {type},
           drawn |-> g.drawn + 1,
           lastDrawn |-> g.lastDrawn \cup {type}] :
              type \in drawable(dist), gap \in SpawnGaps}

\* spawnPattern(), every outcome of one call on generator g: nothing when no
\* pattern is available
spawnPattern(g, dist) ==
    IF availablePatterns(dist) = <<>> THEN {g}
    ELSE {[lastSpawnX |-> g.lastSpawnX + gap,
           emitted |-> g.emitted \cup {type},
           drawn |-> g.drawn + 1,
           lastDrawn |-> g.lastDrawn \cup {type}] :
              type \in drawable(dist), gap \in SpawnGaps}

\* the loop of generateInitialWorld: n calls of spawnPattern
RECURSIVE spawnTimes(_, _, _)
spawnTimes(gs, dist, n) ==
    IF n = 0 THEN gs
    ELSE spawnTimes(UNION {spawnPattern(g, dist) : g \in gs}, dist, n - 1)

\* generateInitialWorld(), as far as it touches the patterns
generateInitialWorld(dist) ==
    spawnTimes({[lastSpawnX |-> InitialSpawnX, emitted |-> {}, drawn |-> 0,
                 lastDrawn |-> {}]}, dist, InitialPatterns)

\* the loop of update: while (this.lastSpawnX < spawnThreshold) spawnPattern()
RECURSIVE spawnWhile(_, _, _)
spawnWhile(gs, dist, spawnThreshold) ==
    LET more == {g \in gs : g.lastSpawnX < spawnThreshold}
    IN  IF more = {} THEN gs
        ELSE spawnWhile((gs \ more) \cup UNION {spawnPattern(g, dist) : g \in more},
                        dist, spawnThreshold)

\* worldGenerator.update(), as far as it touches the patterns
worldGeneratorUpdate(dist) ==
    spawnWhile({[lastSpawnX |-> lastSpawnX, emitted |-> emitted, drawn |-> drawn,
                 lastDrawn |-> {}]}, dist, PlayerX + SpawnAhead)

\* buildingDistance + Math.random() * 100, at both ends of its range
BuildingGaps == {200, 299}

\* spawnThreshold + 400
BuildingAhead == 400

\* generateInitialWorld: for (x = 0; x < 2000; x += buildingDistance)
InitialBuildings == 10

\* the building loop of update without the 400 of extra lookahead
RECURSIVE spawnBuildingsNoLookahead(_, _)
spawnBuildingsNoLookahead(bs, spawnThreshold) ==
    LET more == {b \in bs : b.buildingSpawnX < spawnThreshold}
    IN  IF more = {} THEN bs
        ELSE spawnBuildingsNoLookahead(
                 (bs \ more) \cup
                     {[buildingSpawnX |-> b.buildingSpawnX + gap, spawned |-> b.spawned + 1] :
                          b \in more, gap \in BuildingGaps},
                 spawnThreshold)

\* the building loop of update: while (this.buildingSpawnX < spawnThreshold +
\* 400) { spawnBuilding(...); this.buildingSpawnX += ... }, every outcome,
\* with the number of buildings it spawned
RECURSIVE spawnBuildings(_, _)
spawnBuildings(bs, spawnThreshold) ==
    LET more == {b \in bs : b.buildingSpawnX < spawnThreshold + BuildingAhead}
    IN  IF more = {} THEN bs
        ELSE spawnBuildings(
                 (bs \ more) \cup
                     {[buildingSpawnX |-> b.buildingSpawnX + gap, spawned |-> b.spawned + 1] :
                          b \in more, gap \in BuildingGaps},
                 spawnThreshold)

\* the loop entered with the cursor at x
buildingsFrom(x) == {[buildingSpawnX |-> x, spawned |-> 0]}

\* new WorldGenerator(game)
InitGenerator ==
    /\ lastSpawnX = 0
    /\ emitted = {}
    /\ drawn = 0
    /\ lastDrawn = {}
    /\ buildingSpawnX = 0
    /\ buildingsSpawned = 0

\* the simulation state a snapshot keeps
Snapshot(h, its, sc, power, dist, t) ==
    [health |-> h, items |-> its, score |-> sc, sprayPower |-> power,
     distance |-> dist, gameTime |-> t]

NoSnapshot ==
    Snapshot(NewHealth(PlayerMaxHealth), [i \in Items |-> NewItem], 0, MaxSprayPower, 0, 0)

NoRun == [op |-> "none", paused |-> FALSE, gameState |-> "loading", dt |-> 0]

InitRunVars ==
    /\ runLast = NoRun
    /\ overAt = NoSnapshot

----------------------------------------------------------------------------
(***************************************************************************)
(* The player's vertical motion.  Positions are in units, velocities in    *)
(* units per second, dt in tenths of a second.                             *)
(***************************************************************************)
\* PhysicsSystem.gravity, Velocity.maxVy, Physics.bounce
Gravity == 800

MaxVy == 800

Bounce == 0

\* PlayerController.jumpForce
JumpForce == 400

\* createPlayer: Transform(100, 350, 32, 32)
PlayerStartY == 350

PlayerHeight == 32

\* groundY = canvas.height - 150
GroundOffset == 150

\* the heights the canvas takes: resize() gives it the height of its container
CanvasHeights == {600, 520}

\* PhysicsSystem.update setting the ground flags on every penetration
physicsUpdateNoFallingTest(p, height, dt) ==
    LET accelerated == p.vy + (IF p.grounded THEN 0 ELSE (Gravity * dt) \div 10)
        vy == Max(-MaxVy, Min(MaxVy, accelerated))
        y == p.y + (vy * dt) \div 10
        groundY == height - GroundOffset
    IN  IF y + PlayerHeight > groundY
        THEN [p EXCEPT !.y = groundY - PlayerHeight,
                       !.vy = IF vy > 0 THEN -vy * Bounce ELSE vy,
                       !.onGround = TRUE, !.grounded = TRUE, !.landed = TRUE]
        ELSE [p EXCEPT !.y = y, !.vy = vy, !.onGround = FALSE,
                       !.grounded = IF @ /\ vy > 50 THEN FALSE ELSE @]

\* the player's part of PhysicsSystem.update; vy is a multiple of 10, so the
\* divisions are exact
physicsUpdate(p, height, dt) ==
    LET accelerated == p.vy + (IF p.grounded THEN 0 ELSE (Gravity * dt) \div 10)
        vy == Max(-MaxVy, Min(MaxVy, accelerated))
        y == p.y + (vy * dt) \div 10
        groundY == height - GroundOffset
    IN  IF y + PlayerHeight > groundY
        THEN IF vy > 0
             THEN [p EXCEPT !.y = groundY - PlayerHeight, !.vy = -vy * Bounce,
                            !.onGround = TRUE, !.grounded = TRUE, !.landed = TRUE]
             ELSE [p EXCEPT !.y = groundY - PlayerHeight, !.vy = vy]
        ELSE [p EXCEPT !.y = y, !.vy = vy, !.onGround = FALSE,
                       !.grounded = IF @ /\ vy > 50 THEN FALSE ELSE @]

\* PlayerSystem.update, the jump, without the test of Physics.grounded
playerUpdateNoGroundedTest(p, jump) ==
    LET jumped == IF jump /\ ~p.isJumping
                  THEN [p EXCEPT !.vy = -JumpForce, !.grounded = FALSE,
                                 !.isJumping = TRUE, !.jumped = TRUE]
                  ELSE p
    IN  IF jumped.grounded THEN [jumped EXCEPT !.isJumping = FALSE] ELSE jumped

\* PlayerSystem.update: the jump, and the reset of isJumping on the ground
playerUpdate(p, jump) ==
    LET jumped == IF jump /\ p.grounded /\ ~p.isJumping
                  THEN [p EXCEPT !.vy = -JumpForce, !.grounded = FALSE,
                                 !.isJumping = TRUE, !.jumped = TRUE]
                  ELSE p
    IN  IF jumped.grounded THEN [jumped EXCEPT !.isJumping = FALSE] ELSE jumped

NoJump == [op |-> "none", jump |-> FALSE, grounded |-> FALSE, isJumping |-> FALSE,
           landed |-> FALSE, jumped |-> FALSE, dt |-> 0]

\* createPlayer: new Velocity(0, 0), new Physics(), new PlayerController()
InitJump ==
    /\ playerY = PlayerStartY
    /\ playerVy = 0
    /\ physics = [grounded |-> FALSE, onGround |-> FALSE]
    /\ isJumping = FALSE
    /\ canvasHeight = 600
    /\ jumps = 0
    /\ jumpLast = NoJump

(***************************************************************************)
(* The AI entities.  Positions are in units, velocities in units per       *)
(* second, timers and dt in tenths of a second.  An absent config key is   *)
(* absent from the record's domain; ai.direction is undefined (0 here)     *)
(* until the patrol sets it, and ai.target is <<>> for null.               *)
(***************************************************************************)
Abs(n) == IF n < 0 THEN -n ELSE n

\* config.key || default
configOr(config, key, default) ==
    IF key \in DOMAIN config /\ config[key] # 0 THEN config[key] ELSE default

NewAIController == [state |-> "idle", timer |-> 0, target |-> <<>>, direction |-> 0]

\* the x spawnMovingObstacle is given, and the config it builds
SpawnX == 400

FactoryConfig == [speed |-> 80, range |-> 150, startX |-> SpawnX]

\* the factory's config, alone and with an idle time configured (tenths)
IdleTimes == {0, 10, 30}

AIConfigs ==
    {FactoryConfig} \cup
    {[speed |-> 80, range |-> 150, startX |-> SpawnX, idleTime |-> t] : t \in IdleTimes}

\* PhysicsSystem.update on an AI entity: the clamp and the move along x
MaxVx == 500

physicsMove(e, dt) ==
    LET vx == Max(-MaxVx, Min(MaxVx, e.vx))
    IN  [e EXCEPT !.vx = vx, !.x = @ + (vx * dt) \div 10]

\* updatePatrolAI; random is the outcome of Math.random() > 0.5
updatePatrolAI(e, config, random) ==
    LET patrolSpeed == configOr(config, "speed", 50)
        patrolRange == configOr(config, "range", 200)
        startX == configOr(config, "startX", e.x)
    IN  CASE e.ai.state = "idle" ->
               IF e.ai.timer > configOr(config, "idleTime", 20)
               THEN [e EXCEPT !.ai.state = "moving", !.ai.timer = 0,
                              !.ai.direction = IF random THEN 1 ELSE -1]
               ELSE e
          [] e.ai.state = "moving" ->
               LET moved == [e EXCEPT !.vx = patrolSpeed * e.ai.direction]
               IN  IF Abs(e.x - startX) > patrolRange \/ e.ai.timer > 40
                   THEN [moved EXCEPT !.ai.state = "turning", !.ai.timer = 0]
                   ELSE moved
          [] e.ai.state = "turning" ->
               LET stopped == [e EXCEPT !.vx = 0]
               IN  IF e.ai.timer > 5
                   THEN [stopped EXCEPT !.ai.direction = -@, !.ai.state = "moving",
                                        !.ai.timer = 0]
                   ELSE stopped
          [] OTHER -> e

\* updateGuardAI that does not wait in alert
updateGuardAINoAlertWait(e, config, px) ==
    LET guardRange == configOr(config, "range", 150)
        alertRange == configOr(config, "alertRange", 100)
        dist == Abs(e.x - px)
    IN  CASE e.ai.state = "idle" ->
               IF dist < alertRange
               THEN [e EXCEPT !.ai.state = "alert", !.ai.timer = 0]
               ELSE e
          [] e.ai.state = "alert" ->
               [e EXCEPT !.ai.state = IF dist < guardRange THEN "pursuing" ELSE "idle",
                         !.ai.timer = 0]
          [] e.ai.state = "pursuing" ->
               LET direction == IF e.x < px THEN 1 ELSE -1
                   moved == [e EXCEPT !.vx = configOr(config, "speed", 120) * direction]
               IN  IF 2 * dist > 3 * guardRange
                   THEN [moved EXCEPT !.ai.state = "returning",
                                      !.ai.target = <<configOr(config, "startX", e.x)>>]
                   ELSE moved
          [] e.ai.state = "returning" ->
               IF e.ai.target # <<>>
               THEN LET directionToStart == IF e.x < e.ai.target[1] THEN 1 ELSE -1
                        moved == [e EXCEPT !.vx = configOr(config, "speed", 80)
                                                     * directionToStart]
                    IN  IF Abs(e.x - e.ai.target[1]) < 10
                        THEN [moved EXCEPT !.ai.state = "idle", !.ai.target = <<>>,
                                           !.vx = 0]
                        ELSE moved
               ELSE e
          [] OTHER -> e

\* updateGuardAI; px is the x of game.player's Transform
updateGuardAI(e, config, px) ==
    LET guardRange == configOr(config, "range", 150)
        alertRange == configOr(config, "alertRange", 100)
        dist == Abs(e.x - px)
    IN  CASE e.ai.state = "idle" ->
               IF dist < alertRange
               THEN [e EXCEPT !.ai.state = "alert", !.ai.timer = 0]
               ELSE e
          [] e.ai.state = "alert" ->
               IF e.ai.timer > 10
               THEN [e EXCEPT !.ai.state = IF dist < guardRange THEN "pursuing" ELSE "idle",
                              !.ai.timer = 0]
               ELSE e
          [] e.ai.state = "pursuing" ->
               LET direction == IF e.x < px THEN 1 ELSE -1
                   moved == [e EXCEPT !.vx = configOr(config, "speed", 120) * direction]
               IN  IF 2 * dist > 3 * guardRange
                   THEN [moved EXCEPT !.ai.state = "returning",
                                      !.ai.target = <<configOr(config, "startX", e.x)>>]
                   ELSE moved
          [] e.ai.state = "returning" ->
               IF e.ai.target # <<>>
               THEN LET directionToStart == IF e.x < e.ai.target[1] THEN 1 ELSE -1
                        moved == [e EXCEPT !.vx = configOr(config, "speed", 80)
                                                     * directionToStart]
                    IN  IF Abs(e.x - e.ai.target[1]) < 10
                        THEN [moved EXCEPT !.ai.state = "idle", !.ai.target = <<>>,
                                           !.vx = 0]
                        ELSE moved
               ELSE e
          [] OTHER -> e

\* AISystem.update on one entity: the timer, then the behaviour of its type
aiUpdate(e, type, config, dt, random, px) ==
    LET timed == [e EXCEPT !.ai.timer = @ + dt]
    IN  CASE type = "patrol" -> updatePatrolAI(timed, config, random)
          [] type = "guard" -> updateGuardAI(timed, config, px)
          [] OTHER -> timed

NoAI == [op |-> "none", dt |-> 0, since |-> 0,
         pre |-> [ai |-> NewAIController, x |-> 0, vx |-> 0]]

\* no AI entity is looked at
InitAI ==
    /\ aiType = "patrol"
    /\ aiConfig = FactoryConfig
    /\ ai = NewAIController
    /\ aiX = SpawnX
    /\ aiVx = 0
    /\ playerAt = PlayerX
    /\ aiLast = NoAI

(***************************************************************************)
(* Achievements and the high score.  A JavaScript value is written as its  *)
(* JSON text ("text" stands for a non-empty string), "undefined" for a     *)
(* property that is not there.  A localStorage item is absent (getItem     *)
(* returns null) or a text, given by its kind.                             *)
(***************************************************************************)
JSValues == {"true", "false", "null", "0", "1", "text"}

truthy(v) == v \in {"true", "1", "text"}

\* ids of initAchievements, a property every object inherits, and an id
\* that names nothing
Registry == {"first_jump", "rebel"}

Inherited == {"constructor"}

AchievementIds == Registry \cup Inherited \cup {"no_such"}

\* this.achievements[id] is an object
found(id) == id \in Registry \cup Inherited

initAchievements ==
    [id \in Registry \cup Inherited |-> IF id \in Registry THEN "false" ELSE "undefined"]

NoEntries == [id \in {} |-> "null"]

Absent == [kind |-> "absent", entries |-> NoEntries]

\* saveProgress: the item it stores, each own entry with its unlocked value
saveProgress(flags) == [kind |-> "object", entries |-> [id \in Registry |-> flags[id]]]

\* loadProgress: the flags and the unlocked set it leaves.  JSON.parse throws
\* on a text that is no JSON and Object.entries on null; a number has no
\* entries
loadProgress(flags, unlocked, item) ==
    IF item.kind = "object"
    THEN [achievements |->
              [id \in DOMAIN flags |->
                  IF id \in DOMAIN item.entries THEN item.entries[id] ELSE flags[id]],
          unlockedAchievements |->
              unlocked \cup {id \in DOMAIN item.entries :
                                found(id) /\ truthy(item.entries[id])}]
    ELSE [achievements |-> flags, unlockedAchievements |-> unlocked]

\* unlockAchievement that does not test the unlocked flag
unlockAchievementNoUnlockedTest(a, id) ==
    IF ~found(id) THEN a
    ELSE LET flags == [a.achievements EXCEPT ![id] = "true"]
         IN  [a EXCEPT !.achievements = flags,
                       !.unlockedAchievements = @ \cup {id},
                       !.notified[id] = @ + 1,
                       !.saved[id] = @ + 1,
                       !.storedAchievements = saveProgress(flags)]

\* unlockAchievement(id) on the system's state a
unlockAchievement(a, id) ==
    IF ~found(id) \/ truthy(a.achievements[id]) THEN a
    ELSE LET flags == [a.achievements EXCEPT ![id] = "true"]
         IN  [a EXCEPT !.achievements = flags,
                       !.unlockedAchievements = @ \cup {id},
                       !.notified[id] = @ + 1,
                       !.saved[id] = @ + 1,
                       !.storedAchievements = saveProgress(flags)]

\* checkAchievement(id, condition); achievements[id]?.unlocked is undefined
\* when nothing is found
checkAchievement(a, id, condition) ==
    IF condition /\ ~(found(id) /\ truthy(a.achievements[id]))
    THEN unlockAchievement(a, id)
    ELSE a

\* a number or NaN
Num(n) == [nan |-> FALSE, n |-> n]

NaN == [nan |-> TRUE, n |-> 0]

\* parseInt of a text of the given kind
parseInt(item) == IF item.kind = "number" THEN Num(item.n) ELSE NaN

\* getHighScore: parseInt(getItem(...) || '0')
getHighScore(item) ==
    IF item.kind \in {"absent", "empty"} THEN Num(0) ELSE parseInt(item)

\* score > currentHigh
greater(sc, high) == ~high.nan /\ sc > high.n

\* updateHighScore(score): the item and the value returned
updateHighScore(item, sc) ==
    IF greater(sc, getHighScore(item))
    THEN [item |-> [kind |-> "number", n |-> sc], ret |-> TRUE]
    ELSE [item |-> item, ret |-> FALSE]

AchievementState ==
    [achievements |-> achievements, unlockedAchievements |-> unlockedAchievements,
     notified |-> notified, saved |-> saved, storedAchievements |-> storedAchievements]

NoAch == [op |-> "none", id |-> "no_such", condition |-> FALSE, score |-> 0,
          ret |-> FALSE]

\* new AchievementSystem and new UISystem with nothing stored
InitAch ==
    /\ achievements = initAchievements
    /\ unlockedAchievements = {}
    /\ notified = [id \in AchievementIds |-> 0]
    /\ saved = [id \in AchievementIds |-> 0]
    /\ storedAchievements = Absent
    /\ storedHighScore = [kind |-> "absent", n |-> 0]
    /\ achLast = NoAch

(***************************************************************************)
(* The cleanup of WorldGenerator.update and the flush that follows it.     *)
(***************************************************************************)
SceneEnts == 1..NumScene

\* the tags the factories give: createPlayer, the effects, spawnObstacle,
\* spawnCollectible, spawnBuilding, spawnMovingObstacle
SceneTags ==
    << {"player"}, {"effect"}, {"obstacle"}, {"collectible"}, {"building"},
       {"obstacle", "ai"} >>

sceneTags(e) == SceneTags[((e - 1) % Len(SceneTags)) + 1]

\* cleanupThreshold = playerTransform.x - 400
CleanupBehind == 400

\* the cleanup loop without the test of the tags
cleanupNoTagTest(sc, px) ==
    [e \in DOMAIN sc |->
        IF sc[e].where = "store" /\ sc[e].x < px - CleanupBehind
        THEN [sc[e] EXCEPT !.destroy = TRUE]
        ELSE sc[e]]

\* the cleanup loop over entityManager.entities.values()
cleanup(sc, px) ==
    [e \in DOMAIN sc |->
        IF /\ sc[e].where = "store"
           /\ sceneTags(e) \cap {"obstacle", "collectible", "building"} # {}
           /\ sc[e].x < px - CleanupBehind
        THEN [sc[e] EXCEPT !.destroy = TRUE]
        ELSE sc[e]]

\* EntityManager.update on these entities: the staged ones enter the store,
\* then the ones of the store that are marked destroy leave it
sceneFlush(sc) ==
    [e \in DOMAIN sc |->
        IF sc[e].where = "gone" THEN sc[e]
        ELSE [sc[e] EXCEPT !.where = IF sc[e].destroy THEN "gone" ELSE "store"]]

NoScene == [op |-> "none", found |-> <<>>]

\* no entity is looked at
InitScene ==
    /\ scene = <<>>
    /\ sceneLast = NoScene

(***************************************************************************)
(* Entities that lack a component.  getComponent gives undefined for a     *)
(* component the entity does not carry, and reading a property of          *)
(* undefined throws; nothing between the systems and gameLoop catches.     *)
(***************************************************************************)
\* the components createPlayer, spawnMovingObstacle and spawnCollectible attach
Built ==
    [player |-> {"Transform", "Velocity", "Physics", "Sprite", "Animation",
                 "Health", "PlayerController", "Collider"},
     drone |-> {"Transform", "Velocity", "Physics", "Sprite", "Collider",
                "Obstacle", "AIController"},
     collectible |-> {"Transform", "Sprite", "Collider", "Collectible"}]

\* EntityManager.getEntitiesWith: the entity carries every queried component
hasAll(p, queried) == queried \subseteq p

\* CollisionSystem.update looks at the pairs of entities with Transform and
\* Collider
collidable(p) == hasAll(p, {"Transform", "Collider"})

\* handlePlayerObstacleCollision reads obstacleComponent.hit when the player
\* has a Health that is not invulnerable
obstacleCollisionThrows(p, w) ==
    /\ "Health" \in p.player
    /\ ~w.invulnerable
    /\ "Obstacle" \notin p.drone

\* the flags handlePlayerObstacleCollision leaves when it does not throw
afterObstacleCollision(p, w) ==
    IF "Health" \in p.player /\ ~w.invulnerable /\ ~w.hit
    THEN [w EXCEPT !.hit = TRUE, !.invulnerable = TRUE]
    ELSE w

\* handlePlayerCollectibleCollision reads collectibleComponent.collected
collectibleCollisionThrows(p) == "Collectible" \notin p.collectible

\* collected = true and collectible.destroy = true
afterCollectibleCollision(w) == [w EXCEPT !.collected = TRUE]

\* PlayerSystem.update on a player its query returns: physics.grounded is
\* read after controller.actions.jump and controller.actions.duck when they
\* are set, and always where the jumping flag is reset; sprite.opacity is
\* always written
playerSystemThrows(p, acts) ==
    /\ hasAll(p.player, {"Transform", "Velocity", "PlayerController"})
    /\ \/ acts.jump /\ "Physics" \notin p.player
       \/ acts.duck /\ "Physics" \notin p.player
       \/ "Physics" \notin p.player
       \/ "Sprite" \notin p.player

\* the invulnerability PlayerSystem.update leaves: over when its time is
\* used up
afterPlayerSystem(p, w, timers) ==
    IF /\ hasAll(p.player, {"Transform", "Velocity", "PlayerController"})
       /\ "Health" \in p.player /\ w.invulnerable /\ "invulnerability" \in timers
    THEN [w EXCEPT !.invulnerable = FALSE]
    ELSE w

\* AISystem.update on an entity its query returns: updatePatrolAI writes
\* velocity.vx in the states moving and turning
aiSystemThrows(p, w) ==
    /\ hasAll(p.drone, {"Transform", "AIController"})
    /\ w.state \in {"moving", "turning"}
    /\ "Velocity" \notin p.drone

\* the state updatePatrolAI leaves when its timer has passed the state's time
afterAISystem(p, w, timers) ==
    IF hasAll(p.drone, {"Transform", "AIController"}) /\ "ai" \in timers
    THEN [w EXCEPT !.state = IF @ = "moving" THEN "turning" ELSE "moving"]
    ELSE w

\* the flags of a new game: Health.invulnerable, Obstacle.hit,
\* Collectible.collected, AIController.state
NewFlags ==
    [invulnerable |-> FALSE, hit |-> FALSE, collected |-> FALSE, state |-> "idle"]

NoFrame ==
    [op |-> "none", running |-> FALSE, thrown |-> "none", world |-> NewFlags,
     skipped |-> {}, acts |-> [jump |-> FALSE, duck |-> FALSE], touching |-> {}]

\* no frame is looked at
InitParts ==
    /\ parts = Built
    /\ partsLast = NoFrame

(***************************************************************************)
(* The player's pose: ducking, spraying, the collider, the sprite frame    *)
(* and the animation.                                                      *)
(***************************************************************************)
\* createPlayer: new Animation([], 0.2, true); the duration in tenths
AnimationDuration == 2

NewAnimation ==
    [frames |-> <<>>, loop |-> TRUE, currentFrame |-> 0, timer |-> 0, playing |-> FALSE]

\* Animation.play(frames)
play(a, frames) ==
    [a EXCEPT !.frames = frames, !.playing = TRUE, !.currentFrame = 0, !.timer = 0]

\* createPlayer: Sprite('player', 'idle', 2), Collider(28, 32, 2, 0), and the
\* flags of new PlayerController()
NewPose ==
    [isDucking |-> FALSE, isSpraying |-> FALSE,
     collider |-> [height |-> 32, offsetY |-> 0],
     frame |-> "idle", anim |-> NewAnimation]

\* AnimationSystem.update on the player
animationUpdate(q, dt) ==
    IF q.anim.playing /\ Len(q.anim.frames) > 0
    THEN IF q.anim.timer + dt >= AnimationDuration
         THEN LET next == q.anim.currentFrame + 1
                  ended == next >= Len(q.anim.frames)
                  current == IF ~ended THEN next
                             ELSE IF q.anim.loop THEN 0 ELSE Len(q.anim.frames) - 1
              IN  [q EXCEPT !.anim.timer = 0,
                            !.anim.currentFrame = current,
                            !.anim.playing = IF ended /\ ~q.anim.loop THEN FALSE ELSE @,
                            !.frame = q.anim.frames[current + 1]]
         ELSE [q EXCEPT !.anim.timer = @ + dt]
    ELSE q

\* the sprite frame PlayerSystem.update picks from the player's state
stateFrame(jumping, ducking, spraying) ==
    IF jumping THEN "jump"
    ELSE IF ducking THEN "duck"
    ELSE IF spraying THEN "spray"
    ELSE "idle"

\* PlayerSystem.update ducking whenever the duck action is set
playerPoseNoGroundedTest(q, after, keys, power) ==
    LET jumped == IF after.jumped THEN play(q.anim, <<"jump">>) ELSE q.anim
        ducking == keys.duck
        ducked == IF ducking THEN play(jumped, <<"duck">>) ELSE jumped
        spraying == keys.spray /\ power > 0
        sprayed == IF spraying THEN play(ducked, <<"spray">>) ELSE ducked
    IN  [isDucking |-> ducking, isSpraying |-> spraying,
         collider |-> IF ducking THEN [height |-> 20, offsetY |-> 12]
                      ELSE [height |-> 32, offsetY |-> 0],
         frame |-> IF ~sprayed.playing
                   THEN stateFrame(after.isJumping /\ ~after.grounded, ducking, spraying)
                   ELSE q.frame,
         anim |-> sprayed]

\* PlayerSystem.update after the jump: the duck with its collider, the
\* spray, the animations they play and the sprite frame; after is what the
\* jump left of the physics and the controller
playerPose(q, after, keys, power) ==
    LET jumped == IF after.jumped THEN play(q.anim, <<"jump">>) ELSE q.anim
        ducking == keys.duck /\ after.grounded
        ducked == IF ducking THEN play(jumped, <<"duck">>) ELSE jumped
        spraying == keys.spray /\ power > 0
        sprayed == IF spraying THEN play(ducked, <<"spray">>) ELSE ducked
    IN  [isDucking |-> ducking, isSpraying |-> spraying,
         collider |-> IF ducking THEN [height |-> 20, offsetY |-> 12]
                      ELSE [height |-> 32, offsetY |-> 0],
         frame |-> IF ~sprayed.playing
                   THEN stateFrame(after.isJumping /\ ~after.grounded, ducking, spraying)
                   ELSE q.frame,
         anim |-> sprayed]

NoKeys == [jump |-> FALSE, duck |-> FALSE, spray |-> FALSE]

NoPose == [op |-> "none", keys |-> NoKeys, released |-> FALSE, acted |-> FALSE]

InitPose ==
    /\ pose = NewPose
    /\ poseLast = NoPose

\* no frame has written the spray power
NoSpray == [op |-> "none", drained |-> FALSE, refilled |-> FALSE, regenerated |-> FALSE]

InitSprayLast == sprayLast = NoSpray

\* the stats of the constructor and of startGame: coinsCollected: 0
InitStats == coinsCollected = 0

InitTail == InitSprayLast /\ InitPose /\ InitStats

\* no invulnerability has been granted
NoShield == [granted |-> 0, elapsed |-> 0]

InitShield == shield = NoShield

InitLate == InitAI /\ InitAch /\ InitScene /\ InitParts /\ InitTail

InitEarly == InitGenerator /\ InitRunVars /\ InitJump /\ InitShield

InitRest == InitEarly /\ InitLate

InitMore == InitSim /\ InitPickups /\ InitPaint /\ InitRest

InitWorld ==
    /\ health = NewHealth(PlayerMaxHealth)
    /\ items = [i \in Items |-> NewItem]
    /\ hitCalls = <<>>
    /\ hitOp = "start"
    /\ ret = "none"
    /\ InitMore

----------------------------------------------------------------------------
(***************************************************************************)
(* Actions of SpecEM.                                                      *)
(***************************************************************************)
InitManager ==
    /\ tags = [e \in Ent |-> {}]
    /\ active = [e \in Ent |-> TRUE]
    /\ destroy = [e \in Ent |-> FALSE]
    /\ entities = <<>>
    /\ entitiesByTag = << >>
    /\ entitiesToAdd = <<>>
    /\ entitiesToRemove = <<>>
    /\ last = Other

\* the ChromaticRush constructor; the loading screen is the one shown first
InitGame ==
    /\ gameState = "loading"
    /\ paused = FALSE
    /\ screen = "loadingScreen"
    /\ pauseKey = FALSE
    /\ gameTime = 0
    /\ pending = 0
    /\ log = <<>>
    /\ ticks = 0
    /\ inFrame = FALSE

Referenced(e) ==
    \/ e \in Range(entities)
    \/ e \in Range(entitiesToAdd)
    \/ e \in Range(entitiesToRemove)
    \/ \E t \in DOMAIN entitiesByTag : e \in Range(entitiesByTag[t])

\* new Entity(): an object the manager no longer refers to is replaced by a
\* freshly constructed one
NewEntity(e) ==
    /\ ~Referenced(e)
    /\ tags[e] # {} \/ ~active[e] \/ destroy[e]
    /\ tags' = [tags EXCEPT ![e] = {}]
    /\ active' = [active EXCEPT ![e] = TRUE]
    /\ destroy' = [destroy EXCEPT ![e] = FALSE]
    /\ last' = Other
    /\ UNCHANGED notEM
    /\ UNCHANGED <<entities, entitiesByTag, entitiesToAdd, entitiesToRemove>>

\* entity.addTag(tag); the tag 'obstacle' goes on entities built like obstacles
AddTag(e, t) ==
    /\ hasComponent(e, "Collider")
    /\ t \notin tags[e]
    /\ tags' = [tags EXCEPT ![e] = @ \cup {t}]
    /\ last' = Other
    /\ UNCHANGED notEM
    /\ UNCHANGED <<active, destroy, entities, entitiesByTag, entitiesToAdd, entitiesToRemove>>

RemoveTag(e, t) ==
    /\ t \in tags[e]
    /\ tags' = [tags EXCEPT ![e] = @ \ {t}]
    /\ last' = Other
    /\ UNCHANGED notEM
    /\ UNCHANGED <<active, destroy, entities, entitiesByTag, entitiesToAdd, entitiesToRemove>>

\* entity.destroy = true, as the systems and the world generator write it on
\* entities they hold
MarkDestroy(e) ==
    /\ Referenced(e)
    /\ ~destroy[e]
    /\ destroy' = [destroy EXCEPT ![e] = TRUE]
    /\ last' = Other
    /\ UNCHANGED notEM
    /\ UNCHANGED <<tags, active, entities, entitiesByTag, entitiesToAdd, entitiesToRemove>>

\* entity.active = false
Deactivate(e) ==
    /\ e \in Range(entities)
    /\ active[e]
    /\ active' = [active EXCEPT ![e] = FALSE]
    /\ last' = Other
    /\ UNCHANGED notEM
    /\ UNCHANGED <<tags, destroy, entities, entitiesByTag, entitiesToAdd, entitiesToRemove>>

\* addEntity that puts the entity into the store at once
AddEntityEager(e) ==
    /\ Len(entitiesToAdd) + Len(entitiesToRemove) < MaxStaged
    /\ ~Referenced(e)
    /\ entities' = Append(entities, e)
    /\ last' = Other
    /\ UNCHANGED notEM
    /\ UNCHANGED <<tags, active, destroy, entitiesByTag, entitiesToAdd, entitiesToRemove>>

\* addEntity(entity); every call site passes an entity it has just constructed
AddEntity(e) ==
    /\ Len(entitiesToAdd) + Len(entitiesToRemove) < MaxStaged
    /\ ~Referenced(e)
    /\ entitiesToAdd' = Append(entitiesToAdd, e)
    /\ last' = Other
    /\ UNCHANGED notEM
    /\ UNCHANGED <<tags, active, destroy, entities, entitiesByTag, entitiesToRemove>>

RemoveEntity(e) ==
    /\ Referenced(e)
    /\ e \notin Range(entitiesToRemove)
    /\ Len(entitiesToAdd) + Len(entitiesToRemove) < MaxStaged
    /\ entitiesToRemove' = Append(entitiesToRemove, e)
    /\ last' = Other
    /\ UNCHANGED notEM
    /\ UNCHANGED <<tags, active, destroy, entities, entitiesByTag, entitiesToAdd>>

Update ==
    /\ LET r == Flush(entities, entitiesByTag, entitiesToAdd, entitiesToRemove)
       IN  /\ entities' = r.store
           /\ entitiesByTag' = r.idx
    /\ entitiesToAdd' = <<>>
    /\ entitiesToRemove' = <<>>
    /\ last' = [op |-> "update", toAdd |-> Range(entitiesToAdd),
                toRemove |-> Range(entitiesToRemove)]
    /\ UNCHANGED notEM
    /\ UNCHANGED <<tags, active, destroy>>

Clear ==
    /\ entities # <<>> \/ entitiesToAdd # <<>> \/ entitiesToRemove # <<>>
    /\ entities' = <<>>
    /\ entitiesByTag' = << >>
    /\ entitiesToAdd' = <<>>
    /\ entitiesToRemove' = <<>>
    /\ last' = [Other EXCEPT !.op = "clear"]
    /\ UNCHANGED notEM
    /\ UNCHANGED <<tags, active, destroy>>

NextEM ==
    \/ \E e \in Ent : NewEntity(e)
    \/ \E e \in Ent, t \in Tags : AddTag(e, t)
    \/ \E e \in Ent, t \in Tags : RemoveTag(e, t)
    \/ \E e \in Ent : MarkDestroy(e)
    \/ \E e \in Ent : Deactivate(e)
    \/ \E e \in Ent : AddEntity(e)
    \/ \E e \in Ent : RemoveEntity(e)
    \/ Update
    \/ Clear

InitEM == InitManager /\ InitGame /\ InitWorld

SpecEM == InitEM /\ [][NextEM]_vars

----------------------------------------------------------------------------
(***************************************************************************)
(* The game loop.  A handler (a click, a key event, an animation frame)    *)
(* runs to completion; an animation frame runs every callback registered   *)
(* for it, and callbacks registered meanwhile wait for the next frame.     *)
(* The buttons sit on the screens the code's comments give them: start on  *)
(* the main menu, pause on the game screen, resume/restart/main menu on    *)
(* the pause screen, play again/back to menu on the game-over screen.      *)
(***************************************************************************)
\* the systems list with two systems swapped
systemsSwapped ==
    << "CollisionSystem", "PhysicsSystem", "AnimationSystem", "PlayerSystem",
       "AISystem", "ParticleSystem", "EffectsSystem", "AchievementSystem" >>

\* this.systems, in the order the constructor builds it
systems ==
    << "PhysicsSystem", "CollisionSystem", "AnimationSystem", "PlayerSystem",
       "AISystem", "ParticleSystem", "EffectsSystem", "AchievementSystem" >>

\* System.enabled: set true by the constructor and written nowhere else
enabled(sys) == TRUE

\* the part of the game a handler works on
Game == [gameState |-> gameState, paused |-> paused, screen |-> screen,
         gameTime |-> gameTime, pending |-> pending, log |-> <<>>, ticks |-> 0]

showScreen(g, id) == [g EXCEPT !.screen = id]

requestAnimationFrame(g) == [g EXCEPT !.pending = @ + 1]

pauseGame(g) ==
    IF g.gameState = "playing" /\ ~g.paused
    THEN showScreen([g EXCEPT !.paused = TRUE], "pauseScreen")
    ELSE g

resumeGame(g) ==
    IF g.paused THEN showScreen([g EXCEPT !.paused = FALSE], "gameScreen") ELSE g

returnToMenu(g) ==
    showScreen([g EXCEPT !.gameState = "menu", !.paused = FALSE], "mainMenu")

gameOver(g) == showScreen([g EXCEPT !.gameState = "gameOver"], "gameOverScreen")

\* handleInput: the action flags first, the pause key last
handleInput(g, key) ==
    LET polled == [g EXCEPT !.log = Append(@, "handleInput")]
    IN  IF key THEN pauseGame(polled) ELSE polled

entityManagerUpdate(g) == [g EXCEPT !.log = Append(@, "entityManager.update")]

\* the loop over this.systems; a fatal hit makes CollisionSystem call gameOver()
RECURSIVE runSystems(_, _, _)
runSystems(g, todo, fatal) ==
    IF todo = <<>> THEN g
    ELSE LET sys == Head(todo)
             ran == IF enabled(sys) THEN [g EXCEPT !.log = Append(@, sys)] ELSE g
             out == IF enabled(sys) /\ sys = "CollisionSystem" /\ fatal
                    THEN gameOver(ran) ELSE ran
         IN  runSystems(out, Tail(todo), fatal)

\* gameLoop after the early return: the clock, then the pipeline's steps
pipeline(g, key, fatal, dt) ==
    LET t == [g EXCEPT !.gameTime = @ + dt]
        a == handleInput(t, key)
        b == entityManagerUpdate(a)
        c == runSystems(b, systems, fatal)
        d == [c EXCEPT !.log = @ \o << "worldGenerator.update", "updateCamera", "render" >>,
                       !.ticks = @ + 1]
    IN  requestAnimationFrame(d)

\* gameLoop without the paused test of its early return
gameLoopNoPausedTest(g, key, fatal, dt) ==
    IF g.gameState # "playing"
    THEN g
    ELSE pipeline(g, key, fatal, dt)

gameLoop(g, key, fatal, dt) ==
    IF g.gameState # "playing" \/ g.paused
    THEN IF g.gameState = "playing" THEN requestAnimationFrame(g) ELSE g
    ELSE pipeline(g, key, fatal, dt)

\* startGame: reset, show the game screen, call gameLoop() directly, with
\* currentTime = lastTime = now; the new player has full health, so this first
\* pass cannot end the game
startGame(g, key) ==
    LET reset == showScreen([g EXCEPT !.gameState = "playing", !.paused = FALSE,
                                      !.gameTime = 0],
                            "gameScreen")
    IN  gameLoop(reset, key, FALSE, 0)

restartGame(g, key) == startGame(g, key)

\* the callbacks of one animation frame, one after the other, all with the
\* frame's timestamp: the first one that runs the pipeline sees dt, the later
\* ones 0; fatal[i] tells whether a collision pass of the i-th brings the
\* player's health to 0
RECURSIVE runCallbacks(_, _, _, _, _)
runCallbacks(g, n, key, fatal, dt) ==
    IF n = 0 THEN g
    ELSE LET h == gameLoop(g, key, fatal[n], dt)
         IN  runCallbacks(h, n - 1, key, fatal, IF h.ticks > g.ticks THEN 0 ELSE dt)

Commit(g, frame) ==
    /\ gameState' = g.gameState
    /\ paused' = g.paused
    /\ screen' = g.screen
    /\ gameTime' = g.gameTime
    /\ pending' = g.pending
    /\ log' = g.log
    /\ ticks' = g.ticks
    /\ inFrame' = frame
    /\ UNCHANGED notLoop

\* init(): the assets are loaded and the main menu is shown
AssetsLoaded ==
    /\ screen = "loadingScreen"
    /\ Commit(showScreen(Game, "mainMenu"), FALSE)
    /\ UNCHANGED pauseKey

ClickStart ==
    /\ screen = "mainMenu"
    /\ pending < MaxPending
    /\ Commit(startGame(Game, pauseKey), FALSE)
    /\ UNCHANGED pauseKey

ClickPlayAgain ==
    /\ screen = "gameOverScreen"
    /\ pending < MaxPending
    /\ Commit(startGame(Game, pauseKey), FALSE)
    /\ UNCHANGED pauseKey

ClickRestart ==
    /\ screen = "pauseScreen"
    /\ pending < MaxPending
    /\ Commit(restartGame(Game, pauseKey), FALSE)
    /\ UNCHANGED pauseKey

ClickPause ==
    /\ screen = "gameScreen"
    /\ Commit(pauseGame(Game), FALSE)
    /\ UNCHANGED pauseKey

ClickResume ==
    /\ screen = "pauseScreen"
    /\ Commit(resumeGame(Game), FALSE)
    /\ UNCHANGED pauseKey

ClickMainMenu ==
    /\ screen \in {"pauseScreen", "gameOverScreen"}
    /\ Commit(returnToMenu(Game), FALSE)
    /\ UNCHANGED pauseKey

ClickInstructions ==
    /\ screen = "mainMenu"
    /\ Commit(showScreen(Game, "instructionsScreen"), FALSE)
    /\ UNCHANGED pauseKey

ClickSettings ==
    /\ screen = "mainMenu"
    /\ Commit(showScreen(Game, "settingsScreen"), FALSE)
    /\ UNCHANGED pauseKey

ClickBackFromInstructions ==
    /\ screen = "instructionsScreen"
    /\ Commit(showScreen(Game, "mainMenu"), FALSE)
    /\ UNCHANGED pauseKey

\* the settings screen's back button shows the settings screen
ClickBackFromSettings ==
    /\ screen = "settingsScreen"
    /\ Commit(showScreen(Game, "settingsScreen"), FALSE)
    /\ UNCHANGED pauseKey

\* keydown / keyup of Escape or KeyP
PauseKeyEvent ==
    /\ pauseKey' = ~pauseKey
    /\ log' = <<>>
    /\ ticks' = 0
    /\ inFrame' = FALSE
    /\ UNCHANGED <<gameState, paused, screen, gameTime, pending>>
    /\ UNCHANGED notLoop

\* one animation frame: every registered callback runs gameLoop(time)
Frame ==
    /\ pending > 0
    /\ \E fatal \in [1..pending -> BOOLEAN], dt \in {0, DtCap} :
          /\ gameTime + dt <= MaxGameTime
          /\ Commit(runCallbacks([Game EXCEPT !.pending = 0], pending, pauseKey,
                                 fatal, dt), TRUE)
    /\ UNCHANGED pauseKey

NextLoop ==
    \/ AssetsLoaded
    \/ ClickStart
    \/ ClickPlayAgain
    \/ ClickRestart
    \/ ClickPause
    \/ ClickResume
    \/ ClickMainMenu
    \/ ClickInstructions
    \/ ClickSettings
    \/ ClickBackFromInstructions
    \/ ClickBackFromSettings
    \/ PauseKeyEvent
    \/ Frame

InitLoop == InitManager /\ InitGame /\ InitWorld

SpecLoop == InitLoop /\ [][NextLoop]_vars

----------------------------------------------------------------------------
(***************************************************************************)
(* SpecHit: a started game in which the collision pass, the player system  *)
(* and direct calls of the Health methods act on the player's health.      *)
(***************************************************************************)
HitDone(name) ==
    /\ hitOp' = name
    /\ UNCHANGED <<emVars, paused, pauseKey, gameTime, pending, log, ticks, inFrame>>
    /\ UNCHANGED <<gameSpeed, distance, pickVars, paintVars, genVars, runVars, jumpVars,
                   lateVars>>

\* the handler call c of a collision pass that started with the items its
\* granted invulnerability: an obstacle damaged the player, or a power-up
\* that was not collected yet was collected
grants(c, its) ==
    \/ ItemType(c.item).tag = "obstacle" /\ ~c.pre.health.invulnerable /\ ~c.pre.hit
    \/ ItemType(c.item).type = "power_up" /\ ~its[c.item].collected

\* the collision pass of a tick
CollisionUpdate ==
    /\ gameState = "playing"
    /\ LET w == collisionPass(World, 1)
           g == IF w.over THEN gameOver(Game) ELSE Game
       IN  /\ health' = w.health
           /\ items' = w.items
           /\ hitCalls' = w.calls
           /\ score' = w.score
           /\ sprayPower' = w.sprayPower
           /\ gameState' = g.gameState
           /\ screen' = g.screen
           /\ shield' = IF \E k \in DOMAIN w.calls : grants(w.calls[k], items)
                        THEN [granted |-> w.health.invulnerabilityTime, elapsed |-> 0]
                        ELSE shield
    /\ ret' = "none"
    /\ HitDone("collision")

\* the player system's pass of a tick
PlayerUpdate(dt) ==
    /\ gameState = "playing"
    /\ health' = updateInvulnerability(health, dt)
    /\ shield' = IF health.invulnerable THEN [shield EXCEPT !.elapsed = @ + dt] ELSE shield
    /\ hitCalls' = <<>>
    /\ ret' = "none"
    /\ HitDone("player")
    /\ UNCHANGED <<items, gameState, screen, score, sprayPower>>

\* an item is where physics or the world generator puts it
MoveItem(i, x) ==
    /\ gameState = "playing"
    /\ items[i].x # x
    /\ items' = [items EXCEPT ![i].x = x]
    /\ hitCalls' = <<>>
    /\ ret' = "none"
    /\ HitDone("move")
    /\ UNCHANGED <<health, gameState, screen, score, sprayPower, shield>>

\* the amounts of the direct calls
Amounts == {-1, 1, 2}

InModelRange(h) == -MaxExcess <= h.current /\ h.current <= h.max + MaxExcess

TakeDamageCall(a) ==
    /\ LET r == takeDamage(health, a)
       IN  /\ InModelRange(r.health)
           /\ health' = r.health
           /\ ret' = IF r.ret THEN "true" ELSE "false"
    /\ hitCalls' = <<>>
    /\ HitDone("takeDamage")
    /\ UNCHANGED <<items, gameState, screen, score, sprayPower, shield>>

HealCall(a) ==
    /\ InModelRange(heal(health, a))
    /\ health' = heal(health, a)
    /\ hitCalls' = <<>>
    /\ ret' = "none"
    /\ HitDone("heal")
    /\ UNCHANGED <<items, gameState, screen, score, sprayPower, shield>>

\* startGame: a new player and a new world
StartGameHit ==
    /\ hitOp # "start"
    /\ health' = NewHealth(PlayerMaxHealth)
    /\ items' = [i \in Items |-> NewItem]
    /\ hitCalls' = <<>>
    /\ ret' = "none"
    /\ gameState' = "playing"
    /\ screen' = "gameScreen"
    /\ score' = 0
    /\ sprayPower' = MaxSprayPower
    /\ shield' = NoShield
    /\ HitDone("start")

NextHit ==
    \/ CollisionUpdate
    \/ \E dt \in {0, DtCap} : PlayerUpdate(dt)
    \/ \E i \in Items, x \in XPositions : MoveItem(i, x)
    \/ \E a \in Amounts : TakeDamageCall(a)
    \/ \E a \in Amounts : HealCall(a)
    \/ StartGameHit

\* the state startGame leaves: playing, on the game screen, one callback
\* registered
InitHit ==
    /\ InitManager
    /\ InitWorld
    /\ gameState = "playing"
    /\ paused = FALSE
    /\ screen = "gameScreen"
    /\ pauseKey = FALSE
    /\ gameTime = 0
    /\ pending = 1
    /\ log = <<>>
    /\ ticks = 0
    /\ inFrame = FALSE

SpecHit == InitHit /\ [][NextHit]_vars

----------------------------------------------------------------------------
(***************************************************************************)
(* SpecPickup: the collectible handler and the flush, on a game that is    *)
(* some way into its run (the game time, and with it the game speed, and   *)
(* the spray power are drawn at the start).                                *)
(***************************************************************************)
\* game times (tenths of a second) and spray powers (tenths) to start from
\* a game that startGame started and that has run for one of the given times,
\* with one of the given spray powers
InitStarted(times, powers) ==
    /\ InitManager
    /\ gameState = "playing"
    /\ paused = FALSE
    /\ screen = "gameScreen"
    /\ pauseKey = FALSE
    /\ gameTime \in times
    /\ gameSpeed = speedAt(gameTime)
    /\ pending = 1
    /\ log = <<>>
    /\ ticks = 0
    /\ inFrame = FALSE
    /\ health = NewHealth(PlayerMaxHealth)
    /\ items = [i \in Items |-> NewItem]
    /\ hitCalls = <<>>
    /\ hitOp = "start"
    /\ ret = "none"
    /\ score = 0
    /\ distance = 0
    /\ sprayPower \in powers

PickupTimes == {0, 30, 1200}

PickupPowers == {0, 500, 900, MaxSprayPower}

notPick == <<emVars, loopVars, items, hitCalls, hitOp, ret, gameSpeed, distance,
             paintVars, genVars, runVars, jumpVars, shield, lateVars>>

\* a collision pass whose only overlap is the player with collectible i, or
\* any other invocation of the handler on it
CollectCall(i) ==
    /\ i \in pickStore
    /\ LET r == handlePlayerCollectibleCollision(
                    PlayerSide(score, gameSpeed, sprayPower, health), PickupOf(i))
       IN  /\ score' = r.player.score
           /\ sprayPower' = r.player.sprayPower
           /\ health' = r.player.health
           /\ pickups' = [pickups EXCEPT ![i] = [collected |-> r.collectible.collected,
                                                 destroy |-> r.collectible.destroy]]
           /\ pickLast' = [op |-> "collect", id |-> i,
                           pre |-> [score |-> score, sprayPower |-> sprayPower,
                                    health |-> health,
                                    collected |-> pickups[i].collected],
                           effects |-> r.player.effects]
    /\ UNCHANGED pickStore
    /\ UNCHANGED notPick

\* the store after entityManager.update(): the entities marked destroy are gone
flushMarked(store) == {i \in store : ~pickups[i].destroy}

PickupFlush ==
    /\ pickLast.op # "flush"
    /\ pickStore' = flushMarked(pickStore)
    /\ pickLast' = [NoPick EXCEPT !.op = "flush"]
    /\ UNCHANGED <<score, sprayPower, health, pickups>>
    /\ UNCHANGED notPick

NextPickup ==
    \/ \E i \in Pickups : CollectCall(i)
    \/ PickupFlush

InitPickup ==
    /\ InitStarted(PickupTimes, PickupPowers)
    /\ InitPickups
    /\ InitPaint
    /\ InitRest

SpecPickup == InitPickup /\ [][NextPickup]_vars

----------------------------------------------------------------------------
(***************************************************************************)
(* SpecPaint: ticks of a game that is some way into its run, as far as     *)
(* they touch street art and spray power: handleInput sets actions.spray   *)
(* from the key, the collision pass handles the arts the player overlaps,  *)
(* and the player system regenerates spray power and clears the flag.      *)
(***************************************************************************)
PaintTimes == {0, 30}

PaintPowers == {10, MaxSprayPower}

PaintStarts == {950, 975}

notPaint == <<emVars, loopVars, hitVars, gameSpeed, distance, pickVars, genVars,
              runVars, jumpVars, shield, lateVars>>

PaintTick(sprayKey, overlap, dt) ==
    /\ LET r == paintPass(Sprayer(sprayKey, sprayPower, score, gameSpeed, wallsPainted),
                          arts, overlap, dt, 1)
       IN  /\ arts' = r.arts
           /\ score' = r.player.score
           /\ wallsPainted' = r.player.wallsPainted
           /\ sprayPower' = regenerateSpray(r.player.sprayPower, dt)
           /\ paintLast' = [op |-> "tick", spray |-> sprayKey, overlap |-> overlap,
                            dt |-> dt,
                            pre |-> [arts |-> arts, sprayPower |-> sprayPower,
                                     score |-> score, wallsPainted |-> wallsPainted],
                            afterPass |-> r.player.sprayPower,
                            effects |-> r.player.effects]
    /\ UNCHANGED notPaint

NextPaint ==
    \E sprayKey \in BOOLEAN, overlap \in SUBSET Arts, dt \in {0, DtCap} :
        PaintTick(sprayKey, overlap, dt)

InitPaintRun ==
    /\ InitStarted(PaintTimes, PaintPowers)
    /\ InitPickups
    /\ arts \in [Arts -> {[paintProgress |-> q, painted |-> FALSE] : q \in PaintStarts}]
    /\ wallsPainted = 0
    /\ paintLast = NoPaint
    /\ InitRest

SpecPaint == InitPaintRun /\ [][NextPaint]_vars

----------------------------------------------------------------------------
(***************************************************************************)
(* SpecSpray: the three writers of PlayerController.sprayPower in the      *)
(* frames of one game: the paint drain and the spray-can refill in the     *)
(* collision pass, then the regeneration in the player system.             *)
(***************************************************************************)
notSpray == <<emVars, loopVars, hitCalls, hitOp, ret, items, gameSpeed, distance,
              pickLast, paintLast, genVars, runVars, jumpVars, shield, aiVars, achVars,
              sceneVars, partVars, poseVars, coinsCollected>>

\* one animation frame: the flush, the collision pass over the street art
\* and the collectibles the player overlaps, then the player system
SprayFrame(sprayKey, overlap, touched, dt) ==
    /\ \E store \in {flushMarked(pickStore)} :
       \E painted \in {paintPass(Sprayer(sprayKey, sprayPower, score, gameSpeed,
                                         wallsPainted), arts, overlap, dt, 1)} :
       \E picked \in {pickupPass(PlayerSide(painted.player.score, gameSpeed,
                                            painted.player.sprayPower, health),
                                 pickups, touched \cap store, 1)} :
       \E power \in {regenerateSpray(picked.player.sprayPower, dt)} :
           /\ pickStore' = store
           /\ arts' = painted.arts
           /\ wallsPainted' = painted.player.wallsPainted
           /\ pickups' = picked.pickups
           /\ score' = picked.player.score
           /\ health' = picked.player.health
           /\ sprayPower' = power
           /\ sprayLast' = [op |-> "frame",
                            drained |-> painted.player.sprayPower # sprayPower,
                            refilled |-> picked.player.sprayPower
                                            # painted.player.sprayPower,
                            regenerated |-> power # picked.player.sprayPower]
    /\ UNCHANGED notSpray

\* the collectibles that write the spray power
SprayCans == {i \in Pickups : PickupType(i) = "spray_can"}

NextSpray ==
    \E sprayKey \in BOOLEAN, overlap \in SUBSET Arts, touched \in SUBSET SprayCans,
       dt \in {0, DtCap} :
        SprayFrame(sprayKey, overlap, touched, dt)

\* the paint progress of the wall and the spray powers to start from
SprayStarts == {900}

SprayPowers == {0, MaxSprayPower}

InitSpray ==
    /\ InitStarted({0}, SprayPowers)
    /\ InitPickups
    /\ arts \in [Arts -> {[paintProgress |-> q, painted |-> FALSE] : q \in SprayStarts}]
    /\ wallsPainted = 0
    /\ paintLast = NoPaint
    /\ InitRest

SpecSpray == InitSpray /\ [][NextSpray]_vars

----------------------------------------------------------------------------
(***************************************************************************)
(* SpecGen: one game run, from the constructor on, as far as it touches    *)
(* the world generator: startGame builds the initial world, and every      *)
(* animation frame of the running game advances the clock, the distance    *)
(* and the game speed and calls worldGenerator.update().  The clock is     *)
(* kept exactly up to GenHorizon ticks and modulo two ticks from there on; *)
(* by then game.distance is beyond every minDistance.  Frames keep coming  *)
(* while the game runs, and a pattern that the draw can select again and   *)
(* again is selected at some time.                                         *)
(***************************************************************************)
notGen == <<emVars, pauseKey, pending, log, ticks, inFrame, hitVars, score,
            sprayPower, pickVars, paintVars, runVars, jumpVars, shield, lateVars>>

GenLoaded ==
    /\ screen = "loadingScreen"
    /\ screen' = "mainMenu"
    /\ UNCHANGED <<gameState, paused, gameTime, gameSpeed, distance, genVars, notGen>>

\* startGame(): the reset, generateInitialWorld() at distance 0, and the
\* first gameLoop() call, whose deltaTime is 0
startWorld ==
    /\ gameState' = "playing"
    /\ paused' = FALSE
    /\ screen' = "gameScreen"
    /\ gameTime' = 0
    /\ distance' = 0
    /\ gameSpeed' = speedAt(0)
    /\ \E g \in generateInitialWorld(0) :
          \E h \in spawnWhile({g}, 0, PlayerX + SpawnAhead) :
              /\ lastSpawnX' = h.lastSpawnX
              /\ emitted' = h.emitted
              /\ drawn' = h.drawn
              /\ lastDrawn' = h.lastDrawn
    /\ \E b \in spawnBuildings(buildingsFrom(buildingSpawnX), PlayerX + SpawnAhead) :
          /\ buildingSpawnX' = b.buildingSpawnX
          /\ buildingsSpawned' = InitialBuildings + b.spawned
    /\ UNCHANGED notGen

GenStartGame == screen = "mainMenu" /\ startWorld

\* one animation frame of the running game
GenTick ==
    /\ gameState = "playing"
    /\ ~paused
    /\ LET folded == gameTime + DtCap > GenHorizon
           dist == distance + DtCap * gameSpeed
       IN  /\ gameTime' = IF folded THEN GenHorizon - 1 ELSE gameTime + DtCap
           /\ distance' = IF folded THEN distance - DtCap * speedAt(GenHorizon - 1)
                          ELSE dist
           /\ gameSpeed' = speedAt(gameTime')
           /\ \E g \in worldGeneratorUpdate(dist) :
                 /\ lastSpawnX' = g.lastSpawnX
                 /\ emitted' = g.emitted
                 /\ drawn' = g.drawn
                 /\ lastDrawn' = g.lastDrawn
           /\ \E b \in spawnBuildings(buildingsFrom(buildingSpawnX), PlayerX + SpawnAhead) :
                 /\ buildingSpawnX' = b.buildingSpawnX
                 /\ buildingsSpawned' = b.spawned
    /\ UNCHANGED <<gameState, paused, screen, notGen>>

NextGen ==
    \/ GenLoaded
    \/ GenStartGame
    \/ GenTick

InitGen == InitManager /\ InitGame /\ InitWorld

\* a frame of the running game in which pattern type is executed
DrawIn(type) == GenTick /\ type \in lastDrawn'

PatternTypes == {patterns[k].type : k \in DOMAIN patterns}

SpecGen ==
    /\ InitGen
    /\ [][NextGen]_vars
    /\ WF_vars(GenLoaded)
    /\ WF_vars(GenTick)
    /\ \A type \in PatternTypes : SF_vars(DrawIn(type))

----------------------------------------------------------------------------
(***************************************************************************)
(* SpecWorld: the world generator over several games: the handlers of      *)
(* SpecGen, the pause button, and the restart button of the pause screen,  *)
(* which starts a new game on the same generator.                          *)
(***************************************************************************)
GenPause ==
    /\ gameState = "playing"
    /\ ~paused
    /\ paused' = TRUE
    /\ screen' = "pauseScreen"
    /\ UNCHANGED <<gameState, gameTime, gameSpeed, distance, genVars, notGen>>

GenRestartGame == screen = "pauseScreen" /\ startWorld

NextWorld ==
    \/ GenLoaded
    \/ GenStartGame
    \/ GenTick
    \/ GenPause
    \/ GenRestartGame

SpecWorld == InitGen /\ [][NextWorld]_vars

----------------------------------------------------------------------------
(***************************************************************************)
(* SpecReach: WorldGenerator.update for a player whose Transform.x is      *)
(* given: the first game of SpecGen, with the player put further along     *)
(* the street between frames.                                              *)
(***************************************************************************)
notReach == <<emVars, pauseKey, pending, log, ticks, inFrame, hitVars, score,
              sprayPower, pickVars, paintVars, runVars, jumpVars, shield,
              aiType, aiConfig, ai, aiX, aiVx, aiLast, achVars, sceneVars, partVars,
              tailVars>>

\* the positions the player's Transform.x is given
PlayerReach == {PlayerX, 1500}

PlayerMoved(x) ==
    /\ gameState = "playing"
    /\ x > playerAt
    /\ playerAt' = x
    /\ UNCHANGED <<gameState, paused, screen, gameTime, gameSpeed, distance, genVars,
                   notReach>>

\* one animation frame of the running game with the player at playerAt
ReachTick(dt) ==
    /\ gameState = "playing"
    /\ ~paused
    /\ gameTime + dt <= MaxGameTime
    /\ gameTime' = gameTime + dt
    /\ distance' = distance + dt * gameSpeed
    /\ gameSpeed' = speedAt(gameTime')
    /\ \E g \in spawnWhile({[lastSpawnX |-> lastSpawnX, emitted |-> emitted,
                              drawn |-> drawn, lastDrawn |-> {}]},
                            distance', playerAt + SpawnAhead) :
          /\ lastSpawnX' = g.lastSpawnX
          /\ emitted' = g.emitted
          /\ drawn' = g.drawn
          /\ lastDrawn' = g.lastDrawn
    /\ \E b \in spawnBuildings(buildingsFrom(buildingSpawnX), playerAt + SpawnAhead) :
          /\ buildingSpawnX' = b.buildingSpawnX
          /\ buildingsSpawned' = b.spawned
    /\ UNCHANGED <<gameState, paused, screen, playerAt, notReach>>

NextReach ==
    \/ GenLoaded
    \/ GenStartGame
    \/ \E x \in PlayerReach : PlayerMoved(x)
    \/ \E dt \in {0, DtCap} : ReachTick(dt)

SpecReach == InitGen /\ [][NextReach]_vars

----------------------------------------------------------------------------
(***************************************************************************)
(* SpecRun: whole game runs.  The handlers of SpecLoop, with the tick's    *)
(* effect on the simulation: the clock, the distance and the game speed,   *)
(* the moves of the items (PhysicsSystem and AISystem, by velocity * dt),  *)
(* the collision pass, which calls gameOver() when a hit takes the         *)
(* player's health to 0, and the player system's timers.                   *)
(***************************************************************************)
\* the simulation state a handler works on
Sim == [health |-> health, items |-> items, score |-> score, gameSpeed |-> gameSpeed,
        distance |-> distance, sprayPower |-> sprayPower, overAt |-> overAt]

\* what startGame leaves: createPlayer, the counters, a new world
FreshSim ==
    [health |-> NewHealth(PlayerMaxHealth), items |-> [i \in Items |-> NewItem],
     score |-> 0, gameSpeed |-> speedAt(0), distance |-> 0,
     sprayPower |-> MaxSprayPower, overAt |-> NoSnapshot]

\* CollisionSystem.update up to and including the pair (player, item n)
RECURSIVE collisionPrefix(_, _, _)
collisionPrefix(w, i, n) ==
    IF i > n THEN w
    ELSE IF ~w.items[i].destroy /\ checkCollision(i, w.items[i].x)
         THEN collisionPrefix(handleCollision(w, i), i + 1, n)
         ELSE collisionPrefix(w, i + 1, n)

\* the item whose handler called gameOver() in the pass that ended as w
fatalItem(w) ==
    LET k == CHOOSE k \in DOMAIN w.calls :
                 /\ w.calls[k].pre.health.current > 0
                 /\ w.calls[k].post.health.current <= 0
    IN  w.calls[k].item

\* Transform.x += vx * dt, item by item
RECURSIVE moveItems(_, _, _)
moveItems(its, xs, i) ==
    IF i > NumItems THEN its
    ELSE moveItems([its EXCEPT ![i].x = xs[i]], xs, i + 1)

\* the simulation's part of one tick: the items have moved to xs (not at all
\* when dt = 0), the collision pass, the player system
simTick(s, t, xs, dt) ==
    LET moved == IF dt = 0 THEN s.items ELSE moveItems(s.items, xs, 1)
        dist == s.distance + dt * s.gameSpeed
        w0 == [health |-> s.health, items |-> moved, over |-> FALSE, calls |-> <<>>,
               score |-> s.score, gameSpeed |-> speedAt(t), sprayPower |-> s.sprayPower]
        w1 == collisionPass(w0, 1)
        atOver == collisionPrefix(w0, 1, fatalItem(w1))
    IN  [over |-> w1.over,
         sim |-> [health |-> updateInvulnerability(w1.health, dt),
                  items |-> w1.items,
                  score |-> w1.score,
                  gameSpeed |-> speedAt(t),
                  distance |-> dist,
                  sprayPower |-> regenerateSpray(w1.sprayPower, dt),
                  overAt |-> IF w1.over
                             THEN Snapshot(atOver.health, atOver.items, atOver.score,
                                           atOver.sprayPower, dist, t)
                             ELSE s.overAt]]

\* gameLoop(time) on the game r.g and the simulation r.s
runLoop(r, key, xs, dt) ==
    LET tick == simTick(r.s, r.g.gameTime + dt, xs, dt)
        g == gameLoop(r.g, key, tick.over, dt)
    IN  IF g.ticks > r.g.ticks THEN [g |-> g, s |-> tick.sim] ELSE [g |-> g, s |-> r.s]

\* the callbacks of one animation frame, as runCallbacks runs them
RECURSIVE runAll(_, _, _, _, _)
runAll(r, n, key, xs, dt) ==
    IF n = 0 THEN r
    ELSE LET q == runLoop(r, key, xs, dt)
         IN  runAll(q, n - 1, key, xs, IF q.g.ticks > r.g.ticks THEN 0 ELSE dt)

\* the runs followed: the time the run has lasted and the lives left
RunStarts ==
    {[gameTime |-> 0, current |-> 3], [gameTime |-> 200, current |-> 2],
     [gameTime |-> 400, current |-> 1]}

\* game.distance after t ticks of 0.1 s: the sum of the game speeds so far
distanceAt(t) == 1000 * t + (t * (t - 1)) \div 2

notRun == <<emVars, hitCalls, hitOp, ret, pickVars, paintVars, genVars, jumpVars,
           shield, lateVars>>

RunCommit(r, op, dt) ==
    /\ gameState' = r.g.gameState
    /\ paused' = r.g.paused
    /\ screen' = r.g.screen
    /\ gameTime' = r.g.gameTime
    /\ pending' = r.g.pending
    /\ log' = r.g.log
    /\ ticks' = r.g.ticks
    /\ inFrame' = (op = "frame")
    /\ health' = r.s.health
    /\ items' = r.s.items
    /\ score' = r.s.score
    /\ gameSpeed' = r.s.gameSpeed
    /\ distance' = r.s.distance
    /\ sprayPower' = r.s.sprayPower
    /\ overAt' = r.s.overAt
    /\ runLast' = [op |-> op, paused |-> paused, gameState |-> gameState, dt |-> dt]
    /\ UNCHANGED notRun

RunClickStart ==
    /\ screen = "mainMenu"
    /\ pending < MaxPending
    /\ RunCommit([g |-> startGame(Game, pauseKey), s |-> FreshSim], "startGame", 0)
    /\ UNCHANGED pauseKey

RunClickPlayAgain ==
    /\ screen = "gameOverScreen"
    /\ pending < MaxPending
    /\ RunCommit([g |-> startGame(Game, pauseKey), s |-> FreshSim], "startGame", 0)
    /\ UNCHANGED pauseKey

RunClickRestart ==
    /\ screen = "pauseScreen"
    /\ pending < MaxPending
    /\ RunCommit([g |-> restartGame(Game, pauseKey), s |-> FreshSim], "startGame", 0)
    /\ UNCHANGED pauseKey

RunClickPause ==
    /\ screen = "gameScreen"
    /\ RunCommit([g |-> pauseGame(Game), s |-> Sim], "pauseGame", 0)
    /\ UNCHANGED pauseKey

RunClickResume ==
    /\ screen = "pauseScreen"
    /\ RunCommit([g |-> resumeGame(Game), s |-> Sim], "resumeGame", 0)
    /\ UNCHANGED pauseKey

RunClickMainMenu ==
    /\ screen \in {"pauseScreen", "gameOverScreen"}
    /\ RunCommit([g |-> returnToMenu(Game), s |-> Sim], "returnToMenu", 0)
    /\ UNCHANGED pauseKey

RunPauseKeyEvent ==
    /\ pauseKey' = ~pauseKey
    /\ RunCommit([g |-> Game, s |-> Sim], "key", 0)

\* one animation frame: every registered callback runs gameLoop(time)
RunFrame ==
    /\ pending > 0
    /\ \E xs \in [Items -> XPositions], dt \in {0, DtCap} :
          /\ \E start \in RunStarts :
                /\ start.gameTime <= gameTime
                /\ gameTime + dt <= start.gameTime + MaxGameTime
          /\ RunCommit(runAll([g |-> [Game EXCEPT !.pending = 0], s |-> Sim], pending,
                              pauseKey, xs, dt), "frame", dt)
    /\ UNCHANGED pauseKey

NextRun ==
    \/ RunClickStart
    \/ RunClickPlayAgain
    \/ RunClickRestart
    \/ RunClickPause
    \/ RunClickResume
    \/ RunClickMainMenu
    \/ RunPauseKeyEvent
    \/ RunFrame

\* a game that startGame has just started, or one that has run for 20 s or
\* 40 s of frames 0.1 s apart and has lost one or two of the three lives
InitRun ==
    /\ InitManager
    /\ gameState = "playing"
    /\ paused = FALSE
    /\ screen = "gameScreen"
    /\ pauseKey = FALSE
    /\ pending = 1
    /\ log = <<>>
    /\ ticks = 0
    /\ inFrame = FALSE
    /\ \E start \in RunStarts :
          /\ gameTime = start.gameTime
          /\ gameSpeed = speedAt(start.gameTime)
          /\ distance = distanceAt(start.gameTime)
          /\ health = [NewHealth(PlayerMaxHealth) EXCEPT !.current = start.current]
    /\ items = [i \in Items |-> NewItem]
    /\ hitCalls = <<>>
    /\ hitOp = "start"
    /\ ret = "none"
    /\ score = 0
    /\ sprayPower = MaxSprayPower
    /\ InitPickups
    /\ InitPaint
    /\ InitRest

SpecRun == InitRun /\ [][NextRun]_vars

----------------------------------------------------------------------------
(***************************************************************************)
(* SpecJump: the ticks of a started game as far as they touch the player's *)
(* jump: handleInput sets actions.jump from the key, PhysicsSystem moves   *)
(* the player and lands it, PlayerSystem starts a jump and clears the      *)
(* flags.  The window may be resized between two ticks.                    *)
(***************************************************************************)
notJump == <<emVars, loopVars, hitVars, simVars, pickVars, paintVars, genVars, runVars,
            shield, lateVars>>

JumpTick(jumpKey, dt) ==
    /\ LET before == [y |-> playerY, vy |-> playerVy, grounded |-> physics.grounded,
                      onGround |-> physics.onGround, isJumping |-> isJumping,
                      landed |-> FALSE, jumped |-> FALSE]
           moved == physicsUpdate(before, canvasHeight, dt)
           after == playerUpdate(moved, jumpKey)
       IN  /\ playerY' = after.y
           /\ playerVy' = after.vy
           /\ physics' = [grounded |-> after.grounded, onGround |-> after.onGround]
           /\ isJumping' = after.isJumping
           /\ jumps' = (IF after.landed THEN 0 ELSE jumps) + (IF after.jumped THEN 1 ELSE 0)
           /\ jumpLast' = [op |-> "tick", jump |-> jumpKey, grounded |-> moved.grounded,
                           isJumping |-> moved.isJumping, landed |-> after.landed,
                           jumped |-> after.jumped, dt |-> dt]
    /\ UNCHANGED <<canvasHeight, notJump>>

\* Renderer.resize(), on the window's resize event
Resize(height) ==
    /\ height # canvasHeight
    /\ canvasHeight' = height
    /\ jumpLast' = [NoJump EXCEPT !.op = "resize"]
    /\ UNCHANGED <<playerY, playerVy, physics, isJumping, jumps, notJump>>

NextJump ==
    \/ \E jumpKey \in BOOLEAN, dt \in {0, DtCap} : JumpTick(jumpKey, dt)
    \/ \E height \in CanvasHeights : Resize(height)

InitJumpRun ==
    /\ InitStarted({0}, {MaxSprayPower})
    /\ InitPickups
    /\ InitPaint
    /\ InitRest

SpecJump == InitJumpRun /\ [][NextJump]_vars

----------------------------------------------------------------------------
(***************************************************************************)
(* SpecPose: the frames of SpecJump with the duck and spray keys, the      *)
(* animation system and the rest of the player system.  The player may let *)
(* go of the keys for good; FairPose has frames of the capped duration     *)
(* keep coming.                                                            *)
(***************************************************************************)
notPose == <<emVars, loopVars, hitVars, simVars, pickVars, paintVars, genVars, runVars,
             shield, aiVars, achVars, sceneVars, partVars, sprayLast, coinsCollected>>

Keys == [jump : BOOLEAN, duck : BOOLEAN, spray : BOOLEAN]

PoseTick(keys, dt) ==
    /\ poseLast.released => keys = NoKeys
    /\ \E before \in {[y |-> playerY, vy |-> playerVy, grounded |-> physics.grounded,
                        onGround |-> physics.onGround, isJumping |-> isJumping,
                        landed |-> FALSE, jumped |-> FALSE]} :
       \E moved \in {physicsUpdate(before, canvasHeight, dt)} :
       \E after \in {playerUpdate(moved, keys.jump)} :
       \E posed \in {playerPose(animationUpdate(pose, dt), after, keys, sprayPower)} :
           /\ playerY' = after.y
           /\ playerVy' = after.vy
           /\ physics' = [grounded |-> after.grounded, onGround |-> after.onGround]
           /\ isJumping' = after.isJumping
           /\ jumps' = (IF after.landed THEN 0 ELSE jumps) + (IF after.jumped THEN 1 ELSE 0)
           /\ jumpLast' = [op |-> "tick", jump |-> keys.jump, grounded |-> moved.grounded,
                           isJumping |-> moved.isJumping, landed |-> after.landed,
                           jumped |-> after.jumped, dt |-> dt]
           /\ pose' = posed
           /\ poseLast' = [op |-> "tick", keys |-> keys, released |-> poseLast.released,
                           acted |-> poseLast.acted \/ posed.anim.playing]
    /\ UNCHANGED <<canvasHeight, notPose>>

\* the player lets go of every key and presses none again
Release ==
    /\ ~poseLast.released
    /\ poseLast' = [poseLast EXCEPT !.op = "release", !.released = TRUE]
    /\ UNCHANGED <<pose, jumpVars, notPose>>

NextPose ==
    \/ \E keys \in Keys, dt \in {0, DtCap} : PoseTick(keys, dt)
    \/ Release

SpecPose == InitJumpRun /\ [][NextPose]_vars

FairPose == SpecPose /\ WF_vars(PoseTick(NoKeys, DtCap))

----------------------------------------------------------------------------
(***************************************************************************)
(* SpecAI: the ticks of a started game as far as they touch one AI entity  *)
(* that spawnMovingObstacle built, a patrol or a guard, with or without an *)
(* idle time in its config: PhysicsSystem moves it by its velocity, then   *)
(* AISystem advances its timer and runs its behaviour.  The entity has     *)
(* come to rest on the street before it first moves, so friction, which    *)
(* acts in the tick after a landing, finds vx = 0.  The guard reads the    *)
(* player's position, which is given to the pass.  The run is followed     *)
(* while the timer is at most MaxAITimer and the entity within MaxRoam of  *)
(* its spawn point.                                                        *)
(***************************************************************************)
notAI == <<emVars, loopVars, hitVars, simVars, pickVars, paintVars, genVars, runVars,
           jumpVars, shield, achVars, sceneVars, partVars, tailVars>>

\* the positions the player's Transform.x is given
PlayerPositions == {PlayerX, 340}

AITick(dt, random) ==
    /\ ai.timer + dt <= MaxAITimer
    /\ LET before == [ai |-> ai, x |-> aiX, vx |-> aiVx]
           moved == physicsMove(before, dt)
           after == aiUpdate(moved, aiType, aiConfig, dt, random, playerAt)
       IN  /\ Abs(after.x - SpawnX) <= MaxRoam
           /\ ai' = after.ai
           /\ aiX' = after.x
           /\ aiVx' = after.vx
           /\ aiLast' = [op |-> "tick", dt |-> dt, pre |-> moved,
                         since |-> IF after.ai.state # ai.state THEN 0
                                   ELSE aiLast.since + dt]
    /\ UNCHANGED <<aiType, aiConfig, playerAt, notAI>>

MovePlayer(x) ==
    /\ aiType = "guard"
    /\ playerAt # x
    /\ playerAt' = x
    /\ aiLast' = [aiLast EXCEPT !.op = "player"]
    /\ UNCHANGED <<aiType, aiConfig, ai, aiX, aiVx, notAI>>

NextAI ==
    \/ \E dt \in {0, DtCap}, random \in BOOLEAN : AITick(dt, random)
    \/ \E x \in PlayerPositions : MovePlayer(x)

InitAIRun ==
    /\ InitStarted({0}, {MaxSprayPower})
    /\ InitPickups
    /\ InitPaint
    /\ InitEarly
    /\ InitTail
    /\ InitAch
    /\ InitScene
    /\ InitParts
    /\ \/ aiType = "patrol" /\ aiConfig \in AIConfigs
       \/ aiType = "guard" /\ aiConfig = FactoryConfig
    /\ ai = NewAIController
    /\ aiX = SpawnX
    /\ aiVx = 0
    /\ playerAt = PlayerX
    /\ aiLast = NoAI

SpecAI == InitAIRun /\ [][NextAI]_vars

\* the running game keeps requesting animation frames, and frames take time:
\* ticks of the capped duration keep coming
FairAI == SpecAI /\ WF_vars(\E random \in BOOLEAN : AITick(DtCap, random))

----------------------------------------------------------------------------
(***************************************************************************)
(* SpecAch: the achievement system and the high score from the moment the  *)
(* game object is built, over whatever the two localStorage items held at  *)
(* that moment: checkAchievement and unlockAchievement with any id and any *)
(* condition, and updateHighScore with the score of a run that has ended.  *)
(***************************************************************************)
notAch == <<emVars, loopVars, hitVars, simVars, pickVars, paintVars, genVars, runVars,
            jumpVars, shield, aiVars, sceneVars, partVars, tailVars>>

\* what the achievements item may hold: nothing, an empty text, a text that
\* is no JSON, the JSON null, a JSON number, or a JSON object
StoredEntries ==
    {[id \in {"first_jump"} |-> v] : v \in JSValues} \cup
    {[id \in {"first_jump", "rebel", "no_such"} |->
         IF id = "rebel" THEN v ELSE "true"] : v \in JSValues}

StoredProgress ==
    {[kind |-> k, entries |-> NoEntries] :
         k \in {"absent", "empty", "notJson", "null", "number"}} \cup
    {[kind |-> "object", entries |-> e] : e \in StoredEntries}

\* what the high-score item may hold: nothing, an empty text, the decimal
\* text of a score, or another text
Scores == {0, 50, 100}

StoredScores ==
    {[kind |-> k, n |-> 0] : k \in {"absent", "empty", "text"}} \cup
    {[kind |-> "number", n |-> n] : n \in Scores}

AchDone(a, op, id, condition, sc, returned) ==
    /\ achievements' = a.achievements
    /\ unlockedAchievements' = a.unlockedAchievements
    /\ notified' = a.notified
    /\ saved' = a.saved
    /\ storedAchievements' = a.storedAchievements
    /\ achLast' = [op |-> op, id |-> id, condition |-> condition, score |-> sc,
                   ret |-> returned]
    /\ UNCHANGED <<notAch>>

CheckAchievement(id, condition) ==
    /\ AchDone(checkAchievement(AchievementState, id, condition), "checkAchievement",
               id, condition, 0, FALSE)
    /\ UNCHANGED storedHighScore

UnlockAchievement(id) ==
    /\ AchDone(unlockAchievement(AchievementState, id), "unlockAchievement", id, TRUE,
               0, FALSE)
    /\ UNCHANGED storedHighScore

UpdateHighScore(sc) ==
    LET r == updateHighScore(storedHighScore, sc)
    IN  /\ storedHighScore' = r.item
        /\ AchDone(AchievementState, "updateHighScore", "no_such", FALSE, sc, r.ret)

NextAch ==
    \/ \E id \in AchievementIds, condition \in BOOLEAN : CheckAchievement(id, condition)
    \/ \E id \in AchievementIds : UnlockAchievement(id)
    \/ \E sc \in Scores : UpdateHighScore(sc)

\* the constructors have run: loadProgress over the stored item
InitAchRun ==
    /\ InitStarted({0}, {MaxSprayPower})
    /\ InitPickups
    /\ InitPaint
    /\ InitEarly
    /\ InitTail
    /\ InitAI
    /\ InitScene
    /\ InitParts
    /\ storedAchievements \in StoredProgress
    /\ storedHighScore \in StoredScores
    /\ LET loaded == loadProgress(initAchievements, {}, storedAchievements)
       IN  /\ achievements = loaded.achievements
           /\ unlockedAchievements = loaded.unlockedAchievements
    /\ notified = [id \in AchievementIds |-> 0]
    /\ saved = [id \in AchievementIds |-> 0]
    /\ achLast = NoAch

SpecAch == InitAchRun /\ [][NextAch]_vars

----------------------------------------------------------------------------
(***************************************************************************)
(* SpecClean: ticks of a started game as far as they touch the cleanup:    *)
(* entityManager.update() flushes, then worldGenerator.update() marks.     *)
(* Both cursors are ahead, so the tick spawns nothing.  The entities, one  *)
(* of each factory, are where they are given: behind the cleanup           *)
(* threshold, on it, or ahead of the player; the player is at its x.       *)
(***************************************************************************)
notScene == <<emVars, loopVars, hitVars, simVars, pickVars, paintVars, genVars, runVars,
              jumpVars, shield, aiVars, achVars, partVars, tailVars>>

ScenePositions == {PlayerX - CleanupBehind - 1, PlayerX - CleanupBehind, SpawnX}

SceneTick ==
    /\ sceneLast.op # "tick" \/ sceneFlush(scene) # scene
    /\ LET flushed == sceneFlush(scene)
       IN  /\ scene' = cleanup(flushed, PlayerX)
           /\ sceneLast' = [op |-> "tick", found |-> flushed]
    /\ UNCHANGED notScene

\* a system marks an entity it holds (a collected collectible, a particle
\* whose life has ended)
SceneMark(e) ==
    /\ scene[e].where = "store"
    /\ ~scene[e].destroy
    /\ sceneTags(e) \cap {"collectible", "effect"} # {}
    /\ scene' = [scene EXCEPT ![e].destroy = TRUE]
    /\ sceneLast' = [sceneLast EXCEPT !.op = "mark"]
    /\ UNCHANGED notScene

NextClean ==
    \/ SceneTick
    \/ \E e \in SceneEnts : SceneMark(e)

InitClean ==
    /\ InitStarted({0}, {MaxSprayPower})
    /\ InitPickups
    /\ InitPaint
    /\ InitEarly
    /\ InitTail
    /\ InitAI
    /\ InitAch
    /\ InitParts
    /\ scene \in [SceneEnts -> [x : ScenePositions \cup {PlayerX}, destroy : {FALSE},
                                where : {"staged", "store"}]]
    /\ \A e \in SceneEnts : (scene[e].x = PlayerX) <=> ("player" \in sceneTags(e))
    /\ sceneLast = NoScene

SpecClean == InitClean /\ [][NextClean]_vars

----------------------------------------------------------------------------
(***************************************************************************)
(* SpecParts: frames of a game whose player, drone and collectible are     *)
(* complete or lack one component.  A frame runs the collision pass, the   *)
(* player system and the AI system in the order of Game.systems; a throw   *)
(* leaves gameLoop before it requests the next frame.                      *)
(***************************************************************************)
notParts == <<emVars, loopVars, hitVars, simVars, pickVars, paintVars, genVars, runVars,
              jumpVars, shield, aiVars, achVars, sceneVars, tailVars>>

Actions == [jump : BOOLEAN, duck : BOOLEAN]

\* the entities a system's query or a handler's guard passed over
skippedBy(p) ==
    (IF ~hasAll(p.player, {"Transform", "Velocity", "PlayerController"})
     THEN {"player"} ELSE {}) \cup
    (IF ~hasAll(p.drone, {"Transform", "AIController"}) THEN {"drone"} ELSE {})

PartsFrame(acts, touching, timers) ==
    /\ partsLast.running
    /\ LET w == partsLast.world
           hitO == /\ "drone" \in touching
                   /\ collidable(parts.player) /\ collidable(parts.drone)
           hitC == /\ "collectible" \in touching /\ ~w.collected
                   /\ collidable(parts.player) /\ collidable(parts.collectible)
           t1 == hitO /\ obstacleCollisionThrows(parts, w)
           w1 == IF hitO /\ ~t1 THEN afterObstacleCollision(parts, w) ELSE w
           t2 == ~t1 /\ hitC /\ collectibleCollisionThrows(parts)
           w2 == IF hitC /\ ~t1 /\ ~t2 THEN afterCollectibleCollision(w1) ELSE w1
           t3 == ~t1 /\ ~t2 /\ playerSystemThrows(parts, acts)
           w3 == IF t1 \/ t2 \/ t3 THEN w2 ELSE afterPlayerSystem(parts, w2, timers)
           t4 == ~t1 /\ ~t2 /\ ~t3 /\ aiSystemThrows(parts, w3)
           w4 == IF t1 \/ t2 \/ t3 \/ t4 THEN w3 ELSE afterAISystem(parts, w3, timers)
           thrown == IF t1 \/ t2 THEN "CollisionSystem"
                     ELSE IF t3 THEN "PlayerSystem"
                     ELSE IF t4 THEN "AISystem" ELSE "none"
       IN  partsLast' = [op |-> "frame", running |-> thrown = "none",
                     thrown |-> thrown, world |-> w4,
                     skipped |-> skippedBy(parts), acts |-> acts,
                     touching |-> touching]
    /\ UNCHANGED <<parts, notParts>>

NextParts ==
    \E acts \in Actions, touching \in SUBSET {"drone", "collectible"},
       timers \in SUBSET {"invulnerability", "ai"} :
        PartsFrame(acts, touching, timers)

\* the entities as the factories build them, or with one component of one
\* of them missing
InitPartsRun ==
    /\ InitStarted({0}, {MaxSprayPower})
    /\ InitPickups
    /\ InitPaint
    /\ InitEarly
    /\ InitTail
    /\ InitAI
    /\ InitAch
    /\ InitScene
    /\ \/ parts = Built
       \/ \E e \in DOMAIN Built : \E c \in Built[e] :
              parts = [Built EXCEPT ![e] = @ \ {c}]
    /\ partsLast = [NoFrame EXCEPT !.running = TRUE]

SpecParts == InitPartsRun /\ [][NextParts]_vars

----------------------------------------------------------------------------
(***************************************************************************)
(* Claims about the EntityManager (checked under SpecEM).                  *)
(***************************************************************************)
\* the component-kind sets asked for: those of the systems' queries that
\* involve the modelled kinds, the empty query, and queries that no entity
\* satisfies (no entity has an AIController, none has Collider and Particle)
QueryKinds ==
    { {}, {"Transform"}, {"Transform", "Collider"}, {"Transform", "Particle"},
      {"Transform", "AIController"}, {"Collider", "Particle"} }

InStore(e) == e \in Range(entities)

\* C1: for every set K of component kinds, getEntitiesWith(K) returns exactly
\* the entities of the primary store that are active, are not marked destroy
\* and have every kind in K, each once; an entity that is marked destroy,
\* inactive, only staged or missing a kind is not returned.
C1_QueryExact ==
    \A K \in QueryKinds :
        LET r == getEntitiesWith(K)
        IN  /\ Range(r) = {e \in Ent : /\ InStore(e)
                                       /\ active[e]
                                       /\ ~destroy[e]
                                       /\ K \subseteq components(e)}
            /\ Len(r) = Cardinality(Range(r))

\* a store holding an entity the query returns and one it must leave out,
\* while another entity is only staged
C1_Witness ==
    /\ \E K \in QueryKinds : K # {} /\ Len(getEntitiesWith(K)) = 1
    /\ \E e \in Ent : InStore(e) /\ (destroy[e] \/ ~active[e])
    /\ Len(entities) >= 2

\* what any of the three lookups shows of entity e
Visible(e) ==
    \/ getEntity(e) # 0
    \/ \E K \in QueryKinds : e \in Range(getEntitiesWith(K))
    \/ \E t \in Tags : e \in Range(getEntitiesByTag(t))

\* a step that stages an addition or a removal
StagingStep ==
    \/ \E e \in Ent : entitiesToAdd' = Append(entitiesToAdd, e)
    \/ \E e \in Ent : entitiesToRemove' = Append(entitiesToRemove, e)

\* C2: an entity passed to addEntity is shown by no lookup (getEntitiesWith,
\* getEntity, getEntitiesByTag) before the next update(), and an entity passed
\* to removeEntity is still shown until the next update(): staging changes no
\* lookup result, and no step other than update() (or clear()) makes an entity
\* enter or leave the store or a tag bucket.
C2_StagedUntilFlush ==
    [][ /\ \A e \in Range(entitiesToAdd') : ~Visible(e)'
        /\ last'.op = "other" =>
              /\ \A e \in Ent : getEntity(e)' = getEntity(e)
              /\ \A t \in Tags : getEntitiesByTag(t)' = getEntitiesByTag(t)
              /\ \A K \in QueryKinds :
                    Range(getEntitiesWith(K)') \subseteq Range(getEntitiesWith(K))
              /\ StagingStep =>
                    \A K \in QueryKinds : getEntitiesWith(K)' = getEntitiesWith(K)
      ]_vars

\* one entity waits in the addition list, unseen, while an entity staged for
\* removal is still in the store and still returned by a query
C2_Witness ==
    /\ \E e \in Range(entitiesToAdd) : ~InStore(e) /\ tags[e] # {}
    /\ \E e \in Range(entitiesToRemove) :
          /\ InStore(e)
          /\ e \in Range(getEntitiesWith({"Transform"}))

\* C3: after every update() both staging lists are empty, every entity that
\* was staged for addition is in the store unless it was also staged for
\* removal or is marked destroy, and no entity of the store is marked destroy.
C3_AfterFlush ==
    last.op = "update" =>
        /\ entitiesToAdd = <<>>
        /\ entitiesToRemove = <<>>
        /\ \A e \in last.toAdd :
              (e \notin last.toRemove /\ ~destroy[e]) => InStore(e)
        /\ \A e \in Range(entities) : ~destroy[e]

\* an update() that inserted one staged entity and dropped another that was
\* marked destroy
C3_Witness ==
    /\ last.op = "update"
    /\ \E e \in last.toAdd : InStore(e)
    /\ \E e \in last.toAdd : destroy[e] /\ ~InStore(e)

\* C4: after every update() the bucket of each tag t holds each entity of the
\* store that carries t exactly once, and nothing else.
C4_TagIndexConsistent ==
    last.op = "update" =>
        \A t \in Tags :
            /\ \A e \in Ent : InStore(e) /\ hasTag(e, t) => Occ(getEntitiesByTag(t), e) = 1
            /\ \A e \in Range(getEntitiesByTag(t)) : InStore(e) /\ hasTag(e, t)

\* C5 as stated: between two update() calls every getEntitiesWith call with
\* the same kinds returns the same entities in the same order.
C5_SameResultWithinTick ==
    [][ last'.op = "other" =>
          \A K \in QueryKinds : getEntitiesWith(K)' = getEntitiesWith(K) ]_vars

\* C5 amended: between two update() calls the store does not change, and a
\* later getEntitiesWith call returns the earlier result without the entities
\* that were marked destroy or deactivated in between, in the same order.
C5_ShrinkingWithinTick ==
    [][ last'.op = "other" =>
          /\ entities' = entities
          /\ \A K \in QueryKinds :
                LET before == getEntitiesWith(K)
                    after == getEntitiesWith(K)'
                IN  /\ IsSubSeq(after, before)
                    /\ Range(after) =
                         {e \in Range(before) : active'[e] /\ ~destroy'[e]}
      ]_vars

\* an entity of the store was marked destroy after the flush, so a query made
\* now leaves it out, while another entity is still returned
C5_Witness ==
    /\ last.op = "other"
    /\ \E e \in Range(entities) : destroy[e]
    /\ getEntitiesWith({"Transform"}) # <<>>

----------------------------------------------------------------------------
(***************************************************************************)
(* Claims about the game loop (checked under SpecLoop).                    *)
(***************************************************************************)
\* C6: at most one game-loop callback chain is alive at any time (a callback
\* registered while the game is playing re-registers itself for ever), and
\* the pipeline runs at most once in an animation frame.
C6_SingleChain ==
    /\ gameState = "playing" => pending <= 1
    /\ inFrame => ticks <= 1

\* the order of a tick as the claim gives it
C7_Order ==
    << "handleInput", "entityManager.update",
       "PhysicsSystem", "CollisionSystem", "AnimationSystem", "PlayerSystem",
       "AISystem", "ParticleSystem", "EffectsSystem", "AchievementSystem",
       "worldGenerator.update", "updateCamera", "render" >>

RECURSIVE Repeat(_, _)
Repeat(s, n) == IF n = 0 THEN <<>> ELSE s \o Repeat(s, n - 1)

\* C7: every tick runs, each exactly once and in this order: input polling,
\* the flush, the eight systems in their declared order, the world generator,
\* the camera update and the render; so no system runs before the tick's flush.
C7_TickOrder == log = Repeat(C7_Order, ticks)

\* a frame whose tick polled a held pause key and then met a fatal hit: the
\* tick still ran all its steps
C7_Witness ==
    /\ inFrame
    /\ ticks = 1
    /\ paused
    /\ gameState = "gameOver"

----------------------------------------------------------------------------
(***************************************************************************)
(* Claims about Health and the obstacle hit (SpecHit).                     *)
(***************************************************************************)
ObstacleCalls == {k \in DOMAIN hitCalls : ItemType(hitCalls[k].item).tag = "obstacle"}

\* the call found the player vulnerable and the obstacle's latch unset
Effective(c) == ~c.pre.health.invulnerable /\ ~c.pre.hit

\* the hit as the specification words it, applied to what the call found
HitOutcome(c) ==
    [c.pre.health EXCEPT
        !.current = Max(0, c.pre.health.current - ItemType(c.item).damage),
        !.invulnerable = TRUE,
        !.invulnerabilityTime = HitInvulnerability]

PowerUpAfter(k) ==
    \E m \in DOMAIN hitCalls : m > k /\ ItemType(hitCalls[m].item).type = "power_up"

\* C8 as stated: when the player overlaps an obstacle in a collision pass,
\* vulnerable and with the obstacle's latch unset, then after the pass current is
\* max(0, previous - damage), the player is invulnerable with 1.5 s left and the
\* latch is set; otherwise the handler changes none of the three.
C8_EffectAfterPass ==
    \A k \in ObstacleCalls :
        LET c == hitCalls[k]
        IN  IF Effective(c)
            THEN /\ health = HitOutcome(c)
                 /\ items[c.item].hit
            ELSE c.post = c.pre

\* C8, amended: the effect is that of the handler call; it is what the pass
\* leaves unless a power-up is collected later in the same pass, which sets the
\* remaining invulnerability to 3.0 s.
C8_EffectOfHandler ==
    \A k \in ObstacleCalls :
        LET c == hitCalls[k]
        IN  IF Effective(c)
            THEN /\ c.post = [health |-> HitOutcome(c), hit |-> TRUE]
                 /\ items[c.item].hit
                 /\ health.current = c.post.health.current
                 /\ health.invulnerable
                 /\ ~PowerUpAfter(k) => health = c.post.health
            ELSE c.post = c.pre

\* a pass in which one obstacle took current from 3 to 2 and another
\* overlapping obstacle was handled without effect
C8_Witness ==
    /\ hitOp = "collision"
    /\ \E k \in ObstacleCalls :
          /\ Effective(hitCalls[k])
          /\ hitCalls[k].pre.health.current = 3
          /\ hitCalls[k].post.health.current = 2
    /\ \E k \in ObstacleCalls : ~Effective(hitCalls[k])

\* C9 as stated: Health.current stays within [0, max] after any takeDamage and
\* heal calls with any numeric amounts and after any game ticks.
C9_HealthInRange == 0 <= health.current /\ health.current <= health.max

\* C10: takeDamage called while invulnerable returns false and leaves current
\* unchanged; a collision pass that starts with the player invulnerable lowers
\* no current and sets no latch, and no handler call that finds the player
\* invulnerable changes current or the latch.
C10_InvulnerableNoDamage ==
    /\ [][/\ (hitOp' = "takeDamage" /\ health.invulnerable)
                => (ret' = "false" /\ health'.current = health.current)
          /\ (hitOp' = "collision" /\ health.invulnerable)
                => /\ health'.current >= health.current
                   /\ \A i \in Items : items'[i].hit = items[i].hit]_vars
    /\ [](\A k \in ObstacleCalls :
            hitCalls[k].pre.health.invulnerable
                => /\ hitCalls[k].post.health.current = hitCalls[k].pre.health.current
                   /\ hitCalls[k].post.hit = hitCalls[k].pre.hit)

\* takeDamage has just returned false for an invulnerable player who overlaps
\* an obstacle whose latch is unset
C10_Witness ==
    /\ hitOp = "takeDamage"
    /\ ret = "false"
    /\ health.invulnerable
    /\ health.current > 0
    /\ \E i \in Items :
          /\ ItemType(i).tag = "obstacle"
          /\ checkCollision(i, items[i].x)
          /\ ~items[i].hit

----------------------------------------------------------------------------
(***************************************************************************)
(* Claims about collectibles (SpecPickup).                                 *)
(***************************************************************************)
PickedType == PickupType(pickLast.id)

\* C11: the first handler call on a collectible sets collected, raises the
\* score, applies the type's effect, makes one collect effect and marks the
\* entity destroy; a call on a collectible already collected changes neither
\* score, spray power, invulnerability nor the collectible, and makes no effect.
C11_CollectIdempotent ==
    pickLast.op = "collect" =>
        IF ~pickLast.pre.collected
        THEN /\ pickups[pickLast.id] = [collected |-> TRUE, destroy |-> TRUE]
             /\ score > pickLast.pre.score
             /\ pickLast.effects = 1
             /\ PickedType = "spray_can" =>
                    sprayPower >= pickLast.pre.sprayPower
             /\ PickedType = "power_up" =>
                    /\ health.invulnerable
                    /\ health.invulnerabilityTime = PowerUpInvulnerability
        ELSE /\ score = pickLast.pre.score
             /\ sprayPower = pickLast.pre.sprayPower
             /\ health = pickLast.pre.health
             /\ pickLast.effects = 0
             /\ pickups[pickLast.id] = [collected |-> TRUE, destroy |-> TRUE]

\* the handler has just been called again on the collected power-up, with
\* score on the board, after another pickup in between
C11_Witness ==
    /\ pickLast.op = "collect"
    /\ pickLast.pre.collected
    /\ PickedType = "power_up"
    /\ score > 50
    /\ \E i \in Pickups : i # pickLast.id /\ pickups[i].collected

\* C12 as stated: collecting a collectible raises the score by exactly its
\* value (10, 25, 50), whenever in the run it happens.
C12_ScoreByValue ==
    (pickLast.op = "collect" /\ ~pickLast.pre.collected)
        => score = pickLast.pre.score + getCollectibleValue(PickedType)

\* C13: picking up an uncollected spray can with spray power p leaves
\* min(max, p + 25) and marks the entity destroy in that call; after the next
\* flush no entity marked destroy is left in the store.
C13_SprayCanRefill ==
    /\ (pickLast.op = "collect" /\ ~pickLast.pre.collected /\ PickedType = "spray_can")
          => /\ sprayPower = Min(1000, pickLast.pre.sprayPower + 250)
             /\ pickups[pickLast.id].destroy
             /\ pickLast.id \in pickStore
    /\ pickLast.op = "flush" => \A i \in pickStore : ~pickups[i].destroy
    /\ \A i \in Pickups : (i \notin pickStore) => pickups[i].destroy

\* spray power 50 has just become 75 by a spray can
C13_Witness ==
    /\ pickLast.op = "collect"
    /\ ~pickLast.pre.collected
    /\ PickedType = "spray_can"
    /\ pickLast.pre.sprayPower = 500
    /\ sprayPower = 750

----------------------------------------------------------------------------
(***************************************************************************)
(* Claims about street art (checked under SpecPaint).                      *)
(***************************************************************************)
NewlyPainted == {a \in Arts : ~arts[a].painted /\ arts[a].painted'}

\* Math.floor(100 * gameSpeed), what addScore(100) adds
PaintAward == addScore(0, gameSpeed, PaintScore)

\* C14: StreetArt.painted goes from false to true at most once per art, in
\* exactly the pass in which paintProgress first reaches requiredPaint; that
\* pass adds one to wallsPainted and awards the paint score once; a painted
\* art never reverts and gains no further progress, score or count.
C14_PaintedOnce ==
    [][ /\ \A a \in Arts :
             /\ arts[a].painted => arts'[a] = arts[a]
             /\ (a \in NewlyPainted) <=>
                    (arts[a].paintProgress < RequiredPaint
                        /\ arts'[a].paintProgress >= RequiredPaint)
             /\ arts'[a].painted <=> arts'[a].paintProgress >= RequiredPaint
        /\ wallsPainted' = wallsPainted + Cardinality(NewlyPainted)
        /\ score' = score + Cardinality(NewlyPainted) * PaintAward ]_vars

\* a tick sprayed, with power left, over an art that was already painted
C14_Witness ==
    /\ paintLast.op = "tick"
    /\ paintLast.spray
    /\ paintLast.dt > 0
    /\ paintLast.pre.sprayPower > 0
    /\ wallsPainted >= 1
    /\ \E a \in paintLast.overlap : paintLast.pre.arts[a].painted

\* the paint progress the last tick added, over the arts from a on
RECURSIVE PaintAdded(_)
PaintAdded(a) ==
    IF a > NumArts THEN 0
    ELSE (arts[a].paintProgress - paintLast.pre.arts[a].paintProgress)
            + PaintAdded(a + 1)

PaintedOnlyByPlayerSpray ==
    \A a \in Arts :
        /\ arts[a].paintProgress >= paintLast.pre.arts[a].paintProgress
        /\ arts[a].paintProgress # paintLast.pre.arts[a].paintProgress =>
              /\ a \in paintLast.overlap
              /\ paintLast.spray
              /\ paintLast.pre.sprayPower > 0
              /\ ~paintLast.pre.arts[a].painted

----------------------------------------------------------------------------
(***************************************************************************)
(* Claims about the world generator (checked under SpecGen).               *)
(***************************************************************************)
Gated == {k \in DOMAIN patterns : patterns[k].minDistance > 0}

\* C16: in a game run in which game.distance advances past a pattern's
\* minDistance (200 double_cone, 400 pothole_series, 600 corporate_ambush,
\* 800 drone_patrol), the generator goes on drawing patterns and that pattern
\* is eventually emitted, the weighted draw being fair.
C16_GatedPatternEmitted ==
    \A k \in Gated :
        (gameState = "playing" /\ distance >= patterns[k].minDistance)
            ~> (patterns[k].type \in emitted)

----------------------------------------------------------------------------
(***************************************************************************)
(* Claims about whole game runs (checked under SpecRun).                   *)
(***************************************************************************)
SimState == <<score, distance, gameTime, gameSpeed, health, items, sprayPower>>

\* C17: once gameState = 'gameOver', the simulation state (score, distance,
\* gameTime, the entities and their component fields) is as it was at the
\* moment of the transition, the gameOver() call, until startGame is called.
C17_FrozenAtTransition ==
    gameState = "gameOver" =>
        Snapshot(health, items, score, sprayPower, distance, gameTime) = overAt

\* C18: the game ends exactly when the player's health reaches 0: gameOver()
\* is called in the collision pass in which an obstacle hit takes
\* Health.current to 0, the game ends in no other way, and whenever
\* gameState = 'gameOver' the player's Health.current is 0.
C18_GameOverAtZero ==
    [][ /\ gameState' = "gameOver" => health'.current = 0
        /\ (health.current > 0 /\ health'.current <= 0) =>
              /\ runLast'.op = "frame"
              /\ gameState' = "gameOver"
        /\ (gameState # "gameOver" /\ gameState' = "gameOver") =>
              /\ health.current > 0
              /\ overAt'.health.current = 0
              /\ overAt'.health.invulnerabilityTime = HitInvulnerability ]_vars

\* a frame of the running game ended the game
C18_Witness ==
    /\ gameState = "gameOver"
    /\ runLast.op = "frame"
    /\ runLast.gameState = "playing"
    /\ health.current = 0

\* C19: a handler that finds the game paused, startGame apart, leaves score,
\* distance, gameTime, gameSpeed, the entities and their component fields as
\* they are, so a frame callback that starts paused runs no simulation step;
\* and a frame whose tick detects the pause key runs that tick to its end.
C19_PausedNoTick ==
    [][ /\ (paused /\ runLast'.op # "startGame") => UNCHANGED SimState
        /\ (runLast'.op = "frame" /\ ~paused /\ paused') =>
              /\ ticks' = 1
              /\ log' = C7_Order ]_vars

\* an animation frame 0.1 s after the last tick found the game paused
C19_Witness ==
    /\ runLast.op = "frame"
    /\ runLast.paused
    /\ runLast.dt > 0
    /\ runLast.gameState = "playing"
    /\ paused
    /\ pending > 0

----------------------------------------------------------------------------
(***************************************************************************)
(* Claims about the jump (checked under SpecJump).                         *)
(***************************************************************************)
\* C20: a tick starts a jump (vy := -jumpForce, grounded := false,
\* isJumping := true) only if the jump flag is set and PlayerSystem finds
\* Physics.grounded true and isJumping false; so no jump starts while the
\* player is airborne (grounded false), however long jump is held, isJumping
\* is set by nothing else, and at most one jump starts between two landings.
C20_JumpOnlyFromGround ==
    /\ jumpLast.jumped =>
          /\ jumpLast.jump /\ jumpLast.grounded /\ ~jumpLast.isJumping
          /\ playerVy = -JumpForce /\ ~physics.grounded /\ isJumping
    /\ (jumpLast.op = "tick" /\ ~jumpLast.grounded) => ~jumpLast.jumped
    /\ isJumping => ~physics.grounded
    /\ jumps <= 1

\* jump was held in a tick that found the player in the air after a jump, and
\* no second jump started
C20_Witness ==
    /\ jumpLast.op = "tick"
    /\ jumpLast.jump
    /\ ~jumpLast.grounded
    /\ jumpLast.isJumping
    /\ jumpLast.dt > 0
    /\ jumps = 1
    /\ playerVy > 0

----------------------------------------------------------------------------
(***************************************************************************)
(* Claims about the invulnerability timer (checked under SpecHit).         *)
(***************************************************************************)
\* C21: while Health.invulnerable is true each player-system pass lowers
\* invulnerabilityTime by the tick's dt and clears the flag in the first pass
\* that leaves it <= 0; so the invulnerability granted by a hit (1.5 s) or by a
\* power-up (3.0 s) lasts until that much simulated time has passed in player
\* passes since the grant, and no shorter.
C21_InvulnerabilityTimed ==
    [][/\ (hitOp' = "player" /\ health.invulnerable)
             => LET dt == shield'.elapsed - shield.elapsed
                IN  /\ dt \in {0, DtCap}
                    /\ health'.invulnerabilityTime = health.invulnerabilityTime - dt
                    /\ health'.invulnerable = (health'.invulnerabilityTime > 0)
       /\ (hitOp' = "player" /\ ~health.invulnerable) => health' = health
       /\ health'.invulnerable
             => /\ shield'.granted \in {HitInvulnerability, PowerUpInvulnerability}
                /\ shield'.elapsed < shield'.granted
                /\ health'.invulnerabilityTime = shield'.granted - shield'.elapsed
       /\ (health.invulnerable /\ ~health'.invulnerable /\ hitOp' # "start")
             => /\ hitOp' = "player"
                /\ shield'.elapsed = shield'.granted]_vars

\* the player pass that ends the 3.0 s of a power-up collected by a player
\* whom an obstacle had damaged before
C21_Witness ==
    /\ hitOp = "player"
    /\ ~health.invulnerable
    /\ health.current < health.max
    /\ shield = [granted |-> PowerUpInvulnerability, elapsed |-> PowerUpInvulnerability]

----------------------------------------------------------------------------
(***************************************************************************)
(* Claims about the AI behaviours (checked under SpecAI).                  *)
(***************************************************************************)
\* the idle threshold the entity is configured with, 2 s when none is
ConfiguredIdleTime == IF "idleTime" \in DOMAIN aiConfig THEN aiConfig.idleTime ELSE 20

\* C22 as stated: a patrol entity that is idle with its timer above its
\* configured idle threshold (2 s when none is configured) is moving, with
\* timer 0 and a direction of +1 or -1, after one AI pass, whatever the
\* configured threshold.
C22_IdleEndsAboveThreshold ==
    [][(/\ aiLast'.op = "tick"
        /\ aiType = "patrol"
        /\ ai.state = "idle"
        /\ ai.timer > ConfiguredIdleTime)
          => /\ ai'.state = "moving"
             /\ ai'.timer = 0
             /\ ai'.direction \in {1, -1}]_vars

\* C23 as stated: after every AI pass that leaves a patrol entity moving,
\* |x - startX| <= range; and at the pass that takes it from moving to
\* turning, |x - startX| <= range + speed * dt.
C23_PatrolWithinRange ==
    (aiLast.op = "tick" /\ aiType = "patrol")
        => /\ ai.state = "moving"
                => Abs(aiX - aiConfig.startX) <= aiConfig.range
           /\ (aiLast.pre.ai.state = "moving" /\ ai.state = "turning")
                => Abs(aiX - aiConfig.startX)
                       <= aiConfig.range + (aiConfig.speed * aiLast.dt) \div 10

\* C24: the guard changes state only in an AI pass and only from idle to
\* alert (distance < alertRange, timer reset), from alert to pursuing or to
\* idle once more than 1 s has passed since it entered alert (pursuing iff
\* distance < guardRange), from pursuing to returning (distance > 1.5 *
\* guardRange, target set to the spawn point) and from returning to idle
\* (|x - target.x| < 10, target cleared, vx = 0).
C24_GuardTransitions ==
    [][(aiType = "guard" /\ ai'.state # ai.state)
          => LET pre == aiLast'.pre
                 dist == Abs(pre.x - playerAt)
                 guardRange == configOr(aiConfig, "range", 150)
                 alertRange == configOr(aiConfig, "alertRange", 100)
             IN  /\ aiLast'.op = "tick"
                 /\ pre.ai.state = ai.state
                 /\ \/ /\ ai.state = "idle" /\ ai'.state = "alert"
                       /\ dist < alertRange
                       /\ ai'.timer = 0
                    \/ /\ ai.state = "alert" /\ ai'.state \in {"pursuing", "idle"}
                       /\ aiLast.since + aiLast'.dt > 10
                       /\ ai'.state = "pursuing" <=> dist < guardRange
                    \/ /\ ai.state = "pursuing" /\ ai'.state = "returning"
                       /\ 2 * dist > 3 * guardRange
                       /\ ai'.target = <<SpawnX>>
                    \/ /\ ai.state = "returning" /\ ai'.state = "idle"
                       /\ Abs(pre.x - ai.target[1]) < 10
                       /\ ai'.target = <<>>
                       /\ aiVx' = 0]_vars

\* a guard that has pursued the player is back at its post: the pass took it
\* from returning to idle
C24_Witness ==
    /\ aiType = "guard"
    /\ aiLast.op = "tick"
    /\ aiLast.pre.ai.state = "returning"
    /\ ai.state = "idle"
    /\ ai.target = <<>>

----------------------------------------------------------------------------
(***************************************************************************)
(* Claims about achievements and the high score (checked under SpecAch).   *)
(***************************************************************************)
AchievementCall == achLast'.op \in {"checkAchievement", "unlockAchievement"}

\* the call is for an id of the registry whose flag is not set, with a true
\* condition
Unlocking ==
    /\ AchievementCall
    /\ achLast'.condition
    /\ achLast'.id \in Registry
    /\ ~truthy(achievements[achLast'.id])

\* C25 as stated: for every id and any sequence of checkAchievement and
\* unlockAchievement calls, the unlocked flag goes from false to true at most
\* once and never back; the notification and the persistence write happen
\* once per id, on that transition only; a call with a false condition, for an
\* id that is already unlocked or for an id that is not in the registry
\* changes nothing.
C25_UnlockOnce ==
    [][/\ Unlocking
            => /\ achievements' = [achievements EXCEPT ![achLast'.id] = "true"]
               /\ notified' = [notified EXCEPT ![achLast'.id] = @ + 1]
               /\ saved' = [saved EXCEPT ![achLast'.id] = @ + 1]
       /\ (AchievementCall /\ ~Unlocking)
            => UNCHANGED <<achievements, unlockedAchievements, notified, saved,
                           storedAchievements>>
       /\ \A id \in Registry :
             truthy(achievements[id]) => achievements'[id] = achievements[id]
       /\ \A id \in AchievementIds : notified'[id] <= 1 /\ saved'[id] <= 1]_vars

\* C30 as stated: whatever the two stored items hold, loading leaves every
\* achievement's unlocked flag a boolean and the high score a number, 0 when
\* the stored value is no number.
C30_LoadedWellFormed ==
    /\ \A id \in Registry : achievements[id] \in {"true", "false"}
    /\ ~getHighScore(storedHighScore).nan
    /\ storedHighScore.kind # "number" => getHighScore(storedHighScore) = Num(0)

----------------------------------------------------------------------------
(***************************************************************************)
(* Claims about the generator's cursors and gates (checked under           *)
(* SpecWorld).                                                             *)
(***************************************************************************)
\* C26: after every WorldGenerator.update with a player present lastSpawnX
\* >= player.x + 800 and buildingSpawnX >= player.x + 1200; buildingSpawnX
\* never decreases, and lastSpawnX never decreases within a run, i.e. except
\* where startGame sets it anew.
C26_CursorsAhead ==
    [][/\ gameState' = "playing"
            => /\ lastSpawnX' >= PlayerX + SpawnAhead
               /\ buildingSpawnX' >= PlayerX + SpawnAhead + BuildingAhead
       /\ buildingSpawnX' >= buildingSpawnX
       /\ lastSpawnX' < lastSpawnX
            => /\ gameTime' = 0
               /\ distance' = 0
               /\ drawn' = InitialPatterns]_vars

\* update has run in the second tick of a game, after the longest gaps the
\* initial world can draw and a building loop of seven shortest gaps
C26_Witness ==
    /\ gameState = "playing"
    /\ ~paused
    /\ gameTime = 2
    /\ lastSpawnX = InitialSpawnX + InitialPatterns * 249
    /\ buildingSpawnX = 7 * 200

\* C27: every pattern spawnPattern emits has minDistance <= game.distance
\* at the moment of emission, in generateInitialWorld and in update.
C27_EmittedWithinGate ==
    \A k \in DOMAIN patterns :
        patterns[k].type \in lastDrawn => patterns[k].minDistance <= distance

\* startGame has just emitted its ten patterns
C27_Witness ==
    /\ gameState = "playing"
    /\ gameTime = 0
    /\ drawn = InitialPatterns
    /\ lastDrawn = {"single_barrier"}


\* C28: a tick's cleanup sets destroy on exactly the entities of the store
\* that carry the tag obstacle, collectible or building and whose Transform.x
\* is more than 400 behind the player's, leaves every other entity's flag as
\* it found it, and the entities the store held marked are no longer in it
\* after the tick's flush.
ToClean(e) ==
    /\ sceneLast'.found[e].where = "store"
    /\ sceneTags(e) \cap {"obstacle", "collectible", "building"} # {}
    /\ sceneLast'.found[e].x < PlayerX - CleanupBehind

C28_CleanupMarksBehind ==
    [][sceneLast'.op = "tick" =>
        \A e \in SceneEnts :
            /\ IF ToClean(e)
               THEN scene'[e].destroy
               ELSE scene'[e].destroy = sceneLast'.found[e].destroy
            /\ scene'[e].x = scene[e].x
            /\ (scene[e].where = "store" /\ scene[e].destroy)
                   => (sceneLast'.found[e].where = "gone" /\ scene'[e].where = "gone")
            /\ (scene[e].where = "store" /\ ~scene[e].destroy)
                   => scene'[e].where = "store"]_vars

\* a tick has removed an obstacle the tick before had marked, while an
\* effect just as far behind and a building on the threshold stay unmarked
C28_Witness ==
    /\ sceneLast.op = "tick"
    /\ \E e \in SceneEnts :
           "obstacle" \in sceneTags(e) /\ scene[e].where = "gone"
    /\ \E e \in SceneEnts :
           /\ "effect" \in sceneTags(e) /\ scene[e].where = "store"
           /\ scene[e].x < PlayerX - CleanupBehind /\ ~scene[e].destroy
    /\ \E e \in SceneEnts :
           /\ "building" \in sceneTags(e) /\ scene[e].where = "store"
           /\ scene[e].x = PlayerX - CleanupBehind /\ ~scene[e].destroy

\* C29: in a frame over entities of which one lacks a component a system
\* expects, no system throws, and the loop stays scheduled for the next frame.
C29_MissingComponentSkipped ==
    partsLast.op = "frame" => (partsLast.thrown = "none" /\ partsLast.running)

\* C31: after a physics pass the entity's y + height is at most groundY; the
\* pass sets grounded and onGround only in a tick in which the entity, with
\* the velocity the pass gave it, went below the ground line while falling;
\* and the pass clears grounded only in a tick in which the entity does not
\* penetrate and its vy is above 50.
PassVy ==
    Max(-MaxVy, Min(MaxVy, playerVy + (IF physics.grounded THEN 0
                                       ELSE (Gravity * jumpLast'.dt) \div 10)))

Penetrating ==
    playerY + (PassVy * jumpLast'.dt) \div 10 + PlayerHeight > canvasHeight - GroundOffset

C31_GroundContact ==
    [][jumpLast'.op = "tick" =>
        /\ playerY' + PlayerHeight <= canvasHeight - GroundOffset
        /\ (~physics.grounded /\ jumpLast'.grounded) => (Penetrating /\ PassVy > 0)
        /\ (~physics.onGround /\ physics'.onGround) => (Penetrating /\ PassVy > 0)
        /\ (Penetrating /\ PassVy > 0) =>
               (jumpLast'.grounded /\ physics'.onGround)
        /\ (physics.grounded /\ ~jumpLast'.grounded) => (~Penetrating /\ PassVy > 50)]_vars

\* a pass has put the falling player on the ground line
C31_Witness ==
    /\ jumpLast.op = "tick"
    /\ jumpLast.landed
    /\ jumpLast.grounded
    /\ physics.onGround
    /\ playerY + PlayerHeight = canvasHeight - GroundOffset

\* C32 as stated: a patrol entity that is turning beyond its range is
\* eventually moving again within its range.
C32_TurnedBackIntoRange ==
    (/\ aiType = "patrol"
     /\ ai.state = "turning"
     /\ Abs(aiX - aiConfig.startX) > aiConfig.range)
        ~> (/\ ai.state = "moving"
            /\ Abs(aiX - aiConfig.startX) <= aiConfig.range)

\* what startGame can leave on a new instance: the pattern cursor, the
\* building cursor and the number of buildings it spawned
FreshStarts ==
    {<<h.lastSpawnX, b.buildingSpawnX, InitialBuildings + b.spawned>> :
        h \in UNION {spawnWhile({g}, 0, PlayerX + SpawnAhead) : g \in generateInitialWorld(0)},
        b \in spawnBuildings(buildingsFrom(0), PlayerX + SpawnAhead)}

\* C33 as stated: every startGame, the first or a later one, leaves the score,
\* the distance, the game time and the game speed at their starting values
\* and the generator's cursors and the buildings it spawned as a first
\* startGame on a new instance can leave them.
C33_RestartLikeFirstStart ==
    [][(screen # "gameScreen" /\ screen' = "gameScreen")
          => /\ score' = 0
             /\ distance' = 0
             /\ gameTime' = 0
             /\ gameSpeed' = speedAt(0)
             /\ wallsPainted' = 0
             /\ <<lastSpawnX', buildingSpawnX', buildingsSpawned'>> \in FreshStarts]_vars

\* C34 as stated: whenever the game is paused its gameState is 'playing'.
C34_PausedOnlyWhilePlaying == paused => gameState = "playing"

\* C35: PlayerController.sprayPower is within [0, maxSprayPower] in every
\* state, whatever the order of regeneration, refills and paint drain.
C35_SprayPowerInRange == sprayPower >= 0 /\ sprayPower <= MaxSprayPower

\* a frame in which the paint drained the power, a spray can refilled it to
\* the cap and the player system found nothing left to regenerate
C35_Witness ==
    /\ sprayLast.op = "frame"
    /\ sprayLast.drained
    /\ sprayLast.refilled
    /\ ~sprayLast.regenerated
    /\ sprayPower = MaxSprayPower

\* C36: after every player-system pass isJumping implies not grounded,
\* isDucking implies grounded, so the two are never both true; and the
\* collider has height 20 and offsetY 12 exactly when isDucking, height 32 and
\* offsetY 0 otherwise.
C36_PoseConsistent ==
    /\ isJumping => ~physics.grounded
    /\ pose.isDucking => physics.grounded
    /\ ~(isJumping /\ pose.isDucking)
    /\ pose.collider = IF pose.isDucking THEN [height |-> 20, offsetY |-> 12]
                       ELSE [height |-> 32, offsetY |-> 0]

\* a frame with jump and duck both pressed on the ground: the jump won
C36_Witness ==
    /\ poseLast.op = "tick"
    /\ poseLast.keys.jump /\ poseLast.keys.duck
    /\ jumpLast.grounded
    /\ jumpLast.jumped
    /\ isJumping
    /\ ~pose.isDucking

\* C37 as stated: once the player has jumped, ducked or sprayed and has let
\* go of the keys, the sprite frame is eventually 'idle' with the player
\* grounded.
C37_FrameBackToIdle ==
    (poseLast.acted /\ poseLast.released)
        ~> (pose.frame = "idle" /\ physics.grounded)

\* C38 as stated: stats.coinsCollected is the number of coins the player has
\* collected in the game.
CoinsTaken == {i \in Pickups : PickupType(i) = "coin" /\ pickups[i].collected}

C38_CoinsCounted == coinsCollected = Cardinality(CoinsTaken)

\* C39: in every state some pattern is available; every spawnPattern call of
\* a frame's update advances lastSpawnX by at least spawnDistance and every
\* building spawn advances buildingSpawnX by at least buildingDistance; and
\* both loops stop with the first value past their limit, so after finitely
\* many iterations.
Started == screen # "gameScreen" /\ screen' = "gameScreen"

C39_UpdateTerminates ==
    [][/\ availablePatterns(distance') # <<>>
       /\ (gameState = "playing" /\ ~Started) =>
             /\ lastSpawnX' - lastSpawnX >= SpawnDistance * (drawn' - drawn)
             /\ drawn' > drawn =>
                   lastSpawnX' < playerAt + SpawnAhead + SpawnDistance + 100
             /\ buildingSpawnX' - buildingSpawnX >= BuildingDistance * buildingsSpawned'
                   \/ (buildingSpawnX' = buildingSpawnX /\ lastSpawnX' = lastSpawnX)
             /\ buildingSpawnX' > buildingSpawnX =>
                   buildingSpawnX' < playerAt + SpawnAhead + BuildingAhead
                                        + BuildingDistance + 100
       /\ Started =>
             /\ lastSpawnX' - InitialSpawnX >= SpawnDistance * drawn'
             /\ buildingSpawnX' - buildingSpawnX
                   >= BuildingDistance * (buildingsSpawned' - InitialBuildings)]_vars

\* a frame's update has run both loops for a player further along the street
C39_Witness ==
    /\ gameState = "playing"
    /\ playerAt > PlayerX
    /\ lastDrawn # {}
    /\ lastSpawnX >= playerAt + SpawnAhead
    /\ buildingsSpawned > 1
    /\ buildingSpawnX >= playerAt + SpawnAhead + BuildingAhead

=============================================================================
